---- MODULE Spec2Model ----
(***************************************************************************)
(* Model of the inventory service's multi-index manager (SetManager), the  *)
(* request handlers that mirror the backing store into it, and the         *)
(* concurrent stress harness.                                              *)
(*                                                                         *)
(* A Product is reduced to the two fields the containers look at: its      *)
(* identity key `id` (Eq / Hash) and its `name` (primary key of Ord).      *)
(***************************************************************************)
EXTENDS Integers, Sequences, FiniteSets, TLC

\* ---------------------------------------------------------------- bounds
NumIds == 2
MaxList == 2
MaxMetrics == 6
NumTasks == 2
MaxConc == 2
MaxOps == 2
MaxBench == 11
MaxLog == 3
MaxDur == 2
MaxEntries == 25
MaxSamples == 20
MaxPop == 10
MaxRequest == 201

\* benchmark_*_set: `.take(10)` of the iterated names.
OrderSample == 10
LOOKUP_SAMPLES == 1000

\* main: PgPoolOptions::new().max_connections(20).
MaxConnections == 20

\* run_stress_test: params.concurrency.unwrap_or(20).clamp(1, 200).
DefaultConcurrency == 20
MinConcurrency == 1
MaxConcurrency == 200

\* Identity keys (Uuid) are 1..NumIds, ordered as Uuid::cmp orders them.
Ids == 1..NumIds

\* The names the repository's tests use for the two ends of the alphabet.
Names == {"Alpha", "Zebra"}

\* String::cmp on those names, as a rank.
NameRank(n) == IF n = "Alpha" THEN 1 ELSE 2

Product == [id : Ids, name : Names]

\* Every list of at most MaxList products (duplicate identity keys included).
ProductLists == UNION {[1..n -> Product] : n \in 0..MaxList}

\* Lists of database rows: the primary key makes their ids distinct.
DbLists ==
  {l \in ProductLists : \A i, j \in 1..Len(l) : l[i].id = l[j].id => i = j}

\* ------------------------------------------------- models/product.rs
\* Equality as #[derive(PartialEq)] would give it: field by field.
ProductEqDerived(p, q) == p = q

\* impl PartialEq for Product: equality is by id alone.
ProductEq(p, q) == p.id = q.id

\* A Hasher is a deterministic function of the values written to it: its
\* result is modelled by the sequence of those values.
HasherFinish(written) == written

\* impl Hash for Product: self.id.hash(state), nothing else is written.
ProductHash(p) == HasherFinish(<<p.id>>)

\* impl Ord for Product: compare by name, then by id.  -1 / 0 / 1.
ProductCmp(p, q) ==
  IF NameRank(p.name) < NameRank(q.name) THEN -1
  ELSE IF NameRank(p.name) > NameRank(q.name) THEN 1
  ELSE IF p.id < q.id THEN -1
  ELSE IF p.id > q.id THEN 1
  ELSE 0

\* ------------------------------------------------- container primitives
\* std HashSet::insert: an equal element already present is kept as is.
HashSetInsert(s, p) ==
  IF \E q \in s : ProductEq(q, p) THEN s ELSE s \cup {p}

\* A list with every element equal to p taken out.
WithoutEq(s, p) ==
  LET Other(q) == ~ProductEq(q, p) IN SelectSeq(s, Other)

IndexSetInsertMove(s, p) == Append(WithoutEq(s, p), p)

\* indexmap IndexSet::insert: an equal element already present keeps its
\* value and its position; a new element goes to the end.
IndexSetInsert(s, p) ==
  IF \E i \in 1..Len(s) : ProductEq(s[i], p) THEN s ELSE Append(s, p)

BTreeSetInsertAtEnd(s, p) ==
  IF \E i \in 1..Len(s) : ProductCmp(s[i], p) = 0 THEN s ELSE Append(s, p)

\* std BTreeSet::insert: an element comparing Equal is kept; a new element
\* goes to its place in ascending Ord order.
BTreeSetInsert(s, p) ==
  IF \E i \in 1..Len(s) : ProductCmp(s[i], p) = 0 THEN s
  ELSE LET k == Cardinality({i \in 1..Len(s) : ProductCmp(s[i], p) < 0})
       IN  SubSeq(s, 1, k) \o <<p>> \o SubSeq(s, k + 1, Len(s))

\* HashSet::contains and IndexSet::contains: an element equal to p (Hash + Eq).
HashSetContains(s, p) == \E q \in s : ProductEq(q, p)

IndexSetContains(s, p) == \E i \in 1..Len(s) : ProductEq(s[i], p)

\* BTreeSet::contains: an element comparing Equal to p (Ord).
BTreeSetContains(s, p) == \E i \in 1..Len(s) : ProductCmp(s[i], p) = 0

\* retain(|p| p.id != id) on a set and on an ordered container.
RetainSet(s, id) == {q \in s : q.id # id}

RetainSeq(s, id) ==
  LET Keep(q) == q.id # id IN SelectSeq(s, Keep)

\* ------------------------------------------------- sets/mod.rs SetManager
\* SetManager::new.  last_report is an Option: <<>> is None, <<r>> is
\* Some(r).
NewManager ==
  [hash_set |-> {}, index_set |-> <<>>, btree_set |-> <<>>, last_report |-> <<>>]

\* The three statements of insert_product, one per container.
InsertHash(m, p) == [m EXCEPT !.hash_set = HashSetInsert(@, p)]

InsertIndex(m, p) == [m EXCEPT !.index_set = IndexSetInsert(@, p)]

InsertBTreeNoEvict(m, p) == [m EXCEPT !.btree_set = BTreeSetInsert(@, p)]

InsertBTree(m, p) ==
  [m EXCEPT !.btree_set = BTreeSetInsert(RetainSeq(@, p.id), p)]

\* SetManager::insert_product
insert_product(m, p) == InsertBTree(InsertIndex(InsertHash(m, p), p), p)

\* The three statements of remove_product, one per container.
RemoveHashAll(m, id) == [m EXCEPT !.hash_set = {}]

RemoveHash(m, id) == [m EXCEPT !.hash_set = RetainSet(@, id)]

RemoveIndex(m, id) == [m EXCEPT !.index_set = RetainSeq(@, id)]

RemoveBTreeSkip(m, id) == m

RemoveBTree(m, id) == [m EXCEPT !.btree_set = RetainSeq(@, id)]

\* SetManager::remove_product
remove_product(m, id) == RemoveBTree(RemoveIndex(RemoveHash(m, id), id), id)

ClearSetsKeepIndex(m) ==
  [m EXCEPT !.hash_set = {}, !.btree_set = <<>>]

\* The three clear() calls shared by sync_from_db and reset.
ClearSets(m) ==
  [m EXCEPT !.hash_set = {}, !.index_set = <<>>, !.btree_set = <<>>]

\* The body of sync_from_db's loop: plain insert into each container.
SyncOne(m, p) ==
  [m EXCEPT !.hash_set = HashSetInsert(@, p),
            !.index_set = IndexSetInsert(@, p),
            !.btree_set = BTreeSetInsert(@, p)]

RECURSIVE SyncLoop(_, _, _)
SyncLoop(m, products, i) ==
  IF i > Len(products) THEN m
  ELSE SyncLoop(SyncOne(m, products[i]), products, i + 1)

\* SetManager::sync_from_db
sync_from_db(m, products) == SyncLoop(ClearSets(m), products, 1)

ResetKeepReport(m) == ClearSets(m)

\* reset without btree_set.clear().
ResetKeepBTree(m) ==
  [m EXCEPT !.hash_set = {}, !.index_set = <<>>, !.last_report = <<>>]

\* SetManager::reset
reset(m) == [ClearSets(m) EXCEPT !.last_report = <<>>]

\* SetManager::sizes
sizes(m) == <<Cardinality(m.hash_set), Len(m.index_set), Len(m.btree_set)>>

\* ------------------------------------------------- views of a manager
SeqRange(s) == {s[i] : i \in 1..Len(s)}

HashKeys(m) == {q.id : q \in m.hash_set}

IndexKeys(m) == {q.id : q \in SeqRange(m.index_set)}

BTreeKeys(m) == {q.id : q \in SeqRange(m.btree_set)}

\* Number of entries carrying identity key id in each container.
HashCount(m, id) == Cardinality({q \in m.hash_set : q.id = id})

IndexCount(m, id) == Cardinality({i \in 1..Len(m.index_set) : m.index_set[i].id = id})

BTreeCount(m, id) == Cardinality({i \in 1..Len(m.btree_set) : m.btree_set[i].id = id})

\* ------------------------------------------------- sets/mod.rs benchmark
\* The trial containers: a fresh container, then `for p in products
\* { set.insert(p.clone()) }`.
RECURSIVE HashFill(_, _)
HashFill(products, n) ==
  IF n = 0 THEN {} ELSE HashSetInsert(HashFill(products, n - 1), products[n])

RECURSIVE IndexFill(_, _)
IndexFill(products, n) ==
  IF n = 0 THEN <<>> ELSE IndexSetInsert(IndexFill(products, n - 1), products[n])

RECURSIVE BTreeFill(_, _)
BTreeFill(products, n) ==
  IF n = 0 THEN <<>> ELSE BTreeSetInsert(BTreeFill(products, n - 1), products[n])

\* set.iter().map(|p| p.name.clone()).collect()
NamesOf(s) == [i \in 1..Len(s) |-> s[i].name]

TakeAll(s, k) == s

\* .into_iter().take(k)
Take(s, k) == SubSeq(s, 1, IF Len(s) < k THEN Len(s) ELSE k)

\* A list backwards.
Reversed(s) == [i \in 1..Len(s) |-> s[Len(s) + 1 - i]]

\* HashSet iteration order is unspecified (it depends on the hasher's random
\* keys): any order of the elements can come out.  The orders drawn here:
\* insertion order, its reverse, and sorted order.
HashOrders(products) ==
  LET ins == IndexFill(products, Len(products)) IN
  IF HashFill(products, Len(products)) = {} THEN {<<>>}
  ELSE {ins, Reversed(ins), BTreeFill(ins, Len(ins))}

\* The SetBenchmarkResult of one trial whose container iterates as `iter`.
TrialResult(set_type, products, iter, guaranteed) ==
  [set_type |-> set_type,
   product_count |-> Len(products),
   iteration_order_sample |-> Take(NamesOf(iter), OrderSample),
   order_guaranteed |-> guaranteed]

\* benchmark_hash_set, with the iteration order horder of its container.
benchmark_hash_set(products, horder) ==
  TrialResult("HashSet", products, horder, FALSE)

\* benchmark_index_set
benchmark_index_set(products) ==
  TrialResult("IndexSet (LinkedHashSet)", products,
              IndexFill(products, Len(products)), TRUE)

\* benchmark_btree_set
benchmark_btree_set(products) ==
  TrialResult("BTreeSet", products, BTreeFill(products, Len(products)), TRUE)

\* Half the population, rounded up.
HalfCountUp(n) == (n + 1) \div 2

\* products.len() / 2
HalfCount(n) == n \div 2

\* IndexSet::swap_remove(p): the last element takes the place of p.
SwapRemove(s, p) ==
  IF \A i \in 1..Len(s) : ~ProductEq(s[i], p) THEN s
  ELSE LET i == CHOOSE j \in 1..Len(s) : ProductEq(s[j], p)
           n == Len(s)
       IN  [j \in 1..(n - 1) |-> IF j = i THEN s[n] ELSE s[j]]

\* for p in &half { set.swap_remove(p); } up to the k-th element of half.
RECURSIVE SwapRemoveAll(_, _, _)
SwapRemoveAll(s, half, k) ==
  IF k = 0 THEN s ELSE SwapRemove(SwapRemoveAll(s, half, k - 1), half[k])

\* The removal phase of the three trials: half is the first
\* products.len() / 2 elements the container iterates, and each of them is
\* removed (HashSet::remove by Eq, IndexSet::swap_remove, BTreeSet::remove
\* by Ord).  hash_iter is the order the hash container iterated in.
RemoveHalf(products, horder) ==
  LET k == HalfCount(Len(products))
      index == IndexFill(products, Len(products))
      btree == BTreeFill(products, Len(products))
      hhalf == Take(horder, k)
      ihalf == Take(index, k)
      bhalf == Take(btree, k)
      NotInB(q) == \A j \in 1..Len(bhalf) : ProductCmp(q, bhalf[j]) # 0
  IN  [hash_iter |-> horder,
       hash_set |-> {q \in SeqRange(horder) :
                       \A j \in 1..Len(hhalf) : ~ProductEq(q, hhalf[j])},
       index_set |-> SwapRemoveAll(index, ihalf, Len(ihalf)),
       btree_set |-> SelectSeq(btree, NotInB)]

\* The BenchmarkReport built by run_benchmark.
BenchmarkReport(products, horder) ==
  [product_count |-> Len(products),
   results |-> <<benchmark_hash_set(products, horder),
                 benchmark_index_set(products),
                 benchmark_btree_set(products)>>]

run_benchmark_no_sync(m, products, horder) ==
  [m EXCEPT !.last_report = <<BenchmarkReport(products, horder)>>]

\* SetManager::run_benchmark: the three trials, the re-sync of the live
\* containers, the report kept in last_report.
run_benchmark(m, products, horder) ==
  [sync_from_db(m, products) EXCEPT
     !.last_report = <<BenchmarkReport(products, horder)>>]

\* ------------------------------------------------- state
VARIABLES
  sets,        \* AppState.sets: the SetManager behind the RwLock
  last_call,   \* the manager call that produced `sets`
  store,       \* the products table of the backing store
  next_id,     \* the identity key the store assigns to the next inserted row
  metrics,     \* AppState.metrics: the number of entries of the MetricsStore
  pc,          \* per request task: the await point it is suspended at
  req,         \* per request task: the handler's locals
  last_done,   \* the request that returned last
  lock,        \* the RwLock around the manager: its write guard and read guards
  committed,   \* the manager as the last completed manager operation left it
  s_pc,        \* run_stress_test: the handler's position
  params,      \* run_stress_test: concurrency, ops_per_user, seed_count
  existing_ids,\* run_stress_test: the snapshot of ids the workers draw from
  counters,    \* run_stress_test: reads, creates, updates, deletes, errors
  lat_len,     \* run_stress_test: lengths of the five latency lists
  w_pc,        \* each spawned worker's position
  w_op,        \* each spawned worker's current operation and loop index
  report,      \* the response of the last stress request
  bench_in,    \* a benchmark run on its own: the list handed to run_benchmark
  bench_out,   \* a benchmark run on its own: the report it returned, if any
  entries,     \* MetricsStore.entries: the log of timing entries
  m_call,      \* the MetricsStore call made last, and what it returned
  all_lats,    \* run_stress_test: the global latency list the stats are taken from
  resp,        \* the request answered last, and its response
  devolutions, \* the product_devolutions table of the backing store
  timings,     \* the durations a benchmark run measured, and its winners
  trial_sets,  \* the three trial containers as the trials leave them
  lat_stats,   \* run_stress_test: the latency statistics of the report
  probe_in,    \* the population handed to the lookup phases of a trial
  probes,      \* the lookup targets of a trial and the divisors of its averages
  pool,        \* the connection pool and the stress workers using it
  product_counts, \* run_stress_test: product_count_before and product_count_after
  eq_in,       \* the two Product values handed to eq and hash
  eq_out,      \* what eq and hash returned for them, if called
  presence,    \* the Product looked up in the three containers, and the three answers
  trial,       \* run_benchmark step by step: the trial, its phase and its local container
  mutexes      \* who holds the Mutex of each latency list and the metrics RwLock

mgrVars == <<sets, last_call>>

lockVars == <<lock, committed>>

stressVars ==
  <<s_pc, params, existing_ids, counters, lat_len, w_pc, w_op, report>>

benchVars == <<bench_in, bench_out>>

auxVars == <<eq_in, eq_out, presence, trial, mutexes>>

moreVars ==
  <<entries, m_call, all_lats, lat_stats, resp, devolutions, timings,
    trial_sets, probe_in, probes, pool, product_counts, auxVars>>

apiVars ==
  <<store, next_id, metrics, pc, req, last_done, lock, committed, stressVars,
    benchVars, moreVars>>

vars ==
  <<sets, last_call, store, next_id, metrics, pc, req, last_done, lock,
    committed, stressVars, benchVars, moreVars>>

Workers == 1..MaxConc

NoParams == [concurrency |-> 0, ops_per_user |-> 0, seed_count |-> <<>>, list |-> <<>>]

ZeroCounters == [reads |-> 0, creates |-> 0, updates |-> 0, deletes |-> 0, errors |-> 0]

ZeroLats == [all |-> 0, read |-> 0, create |-> 0, update |-> 0, delete |-> 0]

\* A worker's per-operation locals: `err` is the operation's result being
\* Err, `failed` records that its backing-store call returned an error.
NoOp ==
  [kind |-> "none", id |-> 0, name |-> "", prod |-> <<>>, err |-> FALSE,
   failed |-> FALSE, n |-> 0]

NoReport ==
  [status |-> 0, total_ops |-> 0, reads |-> 0, creates |-> 0, updates |-> 0,
   deletes |-> 0, errors |-> 0, latencies |-> 0]

Tasks == 1..NumTasks

NoReq == [kind |-> "none", id |-> 0, name |-> "", prod |-> <<>>, list |-> <<>>]

NoDone == [kind |-> "none", ok |-> TRUE, renamed |-> FALSE]

\* The service right after start-up, with an empty products table.
InitApi ==
  /\ store = {}
  /\ next_id = 1
  /\ metrics = 0
  /\ pc = [t \in Tasks |-> "idle"]
  /\ req = [t \in Tasks |-> NoReq]
  /\ last_done = NoDone
  /\ lock = [writer |-> 0, readers |-> {}]
  /\ committed = NewManager
  /\ s_pc = "idle"
  /\ params = NoParams
  /\ existing_ids = {}
  /\ counters = ZeroCounters
  /\ lat_len = ZeroLats
  /\ w_pc = [w \in Workers |-> "off"]
  /\ w_op = [w \in Workers |-> NoOp]
  /\ report = NoReport

\* The entries stored under identity key id, in any container.
EntriesOf(m, id) ==
  {q \in m.hash_set \cup SeqRange(m.index_set) \cup SeqRange(m.btree_set) : q.id = id}

\* The identity keys of a list, each at its first occurrence.
RECURSIVE FirstKeys(_)
FirstKeys(l) ==
  IF l = <<>> THEN <<>>
  ELSE LET front == FirstKeys(SubSeq(l, 1, Len(l) - 1))
           k == l[Len(l)].id
       IN  IF \E j \in 1..Len(front) : front[j] = k THEN front
           ELSE Append(front, k)

\* The order in which the keys now present were first inserted, carried
\* along the calls: a new key goes last, a removed key leaves, a rebuild
\* starts over with the list's keys.
OrderAfter(o, i, l) ==
  LET ord == last_call.order
      NotI(k) == k # i
  IN  IF o = "insert_product"
      THEN IF \E j \in 1..Len(ord) : ord[j] = i THEN ord ELSE Append(ord, i)
      ELSE IF o = "remove_product" THEN SelectSeq(ord, NotI)
      ELSE IF o = "reset" THEN <<>>
      ELSE FirstKeys(l)

\* A call record: the operation, its arguments, the entries the manager held
\* under the call's key before the call (`old`), whether the call is an
\* insert_product that directly follows an insert_product of the same key
\* under another name (`again`), the keys the manager held before the call
\* (`had`), the first-insertion order of the keys present after it
\* (`order`), whether a benchmark has completed since start-up or the
\* last reset (`benched`), and, for an insert_product of a new key that
\* directly follows a run_benchmark on a list of distinct keys, the length
\* of that list (`after_bench`, otherwise -1).
NoCall ==
  [op |-> "new", id |-> 0, name |-> "", list |-> <<>>, old |-> {}, again |-> FALSE,
   had |-> {}, order |-> <<>>, benched |-> FALSE, after_bench |-> -1]

\* The elements of a list have pairwise different identity keys.
DistinctKeys(l) == \A i, j \in 1..Len(l) : l[i].id = l[j].id => i = j

Call(o, i, n, l) ==
  [op |-> o, id |-> i, name |-> n, list |-> l,
   old |-> EntriesOf(sets, i),
   again |-> /\ o = "insert_product"
             /\ last_call.op = "insert_product"
             /\ last_call.id = i
             /\ last_call.name # n,
   had |-> HashKeys(sets) \cup IndexKeys(sets) \cup BTreeKeys(sets),
   order |-> OrderAfter(o, i, l),
   benched |-> IF o = "run_benchmark" THEN TRUE
               ELSE IF o = "reset" THEN FALSE
               ELSE last_call.benched,
   after_bench |-> IF /\ o = "insert_product"
                      /\ last_call.op = "run_benchmark"
                      /\ DistinctKeys(last_call.list)
                      /\ \A j \in 1..Len(last_call.list) : last_call.list[j].id # i
                   THEN Len(last_call.list)
                   ELSE -1]

\* No MetricsStore call yet.
NoMCall == [op |-> "new", arg |-> <<>>, out |-> <<>>]

\* No request answered yet.
NoResp ==
  [kind |-> "none", error |-> "none", invalid |-> FALSE, touched |-> FALSE,
   product_count |-> -1]

\* The five latency lists of a stress run.
LatLists == {"all", "read", "create", "update", "delete"}

\* No latency list and no metrics store is locked.
NoHolders == [l \in LatLists \cup {"metrics"} |-> 0]

\* run_benchmark is not running.
NoTrial == [c |-> 0, at |-> "idle", set |-> <<>>, log |-> <<>>]

\* No Product values have been compared or looked up.
InitAux ==
  /\ eq_in = <<>>
  /\ eq_out = <<>>
  /\ presence = <<>>
  /\ trial = NoTrial
  /\ mutexes = NoHolders

\* run_stress_test has counted nothing yet.
NoCounts == [before |-> 0, after |-> 0]

\* No stress run uses the pool.
NoPool ==
  [concurrency |-> 0, between |-> 0, in_query |-> 0, waiting |-> 0, done |-> 0]

\* MetricsStore::new(), and no latency list yet.
InitMetricsVars ==
  /\ entries = <<>>
  /\ m_call = NoMCall
  /\ all_lats = <<>>
  /\ lat_stats = <<>>

InitHandlerVars ==
  /\ resp = NoResp
  /\ devolutions = 0

InitTrialVars ==
  /\ timings = <<>>
  /\ trial_sets = <<>>
  /\ probe_in = <<>>
  /\ probes = <<>>

InitMore ==
  /\ InitMetricsVars
  /\ InitHandlerVars
  /\ InitTrialVars
  /\ pool = NoPool
  /\ product_counts = NoCounts
  /\ InitAux

InitBase ==
  /\ sets = NewManager
  /\ last_call = NoCall
  /\ InitApi
  /\ bench_in = <<>>
  /\ bench_out = <<>>

Init ==
  /\ InitBase
  /\ InitMore

InsertProduct ==
  \E p \in Product :
    /\ sets' = insert_product(sets, p)
    /\ last_call' = Call("insert_product", p.id, p.name, <<>>)
    /\ UNCHANGED apiVars

RemoveProduct ==
  \E id \in Ids :
    /\ sets' = remove_product(sets, id)
    /\ last_call' = Call("remove_product", id, "", <<>>)
    /\ UNCHANGED apiVars

SyncFromDb ==
  \E l \in ProductLists :
    /\ sets' = sync_from_db(sets, l)
    /\ last_call' = Call("sync_from_db", 0, "", l)
    /\ UNCHANGED apiVars

Reset ==
  /\ sets' = reset(sets)
  /\ last_call' = Call("reset", 0, "", <<>>)
  /\ UNCHANGED apiVars

Next ==
  \/ InsertProduct
  \/ RemoveProduct
  \/ SyncFromDb
  \/ Reset

Spec == Init /\ [][Next]_vars

\* ------------------------------------------------- claims on the manager
\* Position of entry q in an ordered container (0 when absent).
PosOf(s, q) == IF \E i \in 1..Len(s) : s[i] = q
               THEN CHOOSE i \in 1..Len(s) : s[i] = q
               ELSE 0

\* Ordered container t holds exactly the entries of s whose key is not id,
\* in the same relative order.
SameOthersSeq(s, t, id) ==
  /\ SeqRange(t) = {q \in SeqRange(s) : q.id # id}
  /\ Len(t) = Cardinality(SeqRange(t))
  /\ \A q1, q2 \in SeqRange(t) :
       (PosOf(t, q1) < PosOf(t, q2)) <=> (PosOf(s, q1) < PosOf(s, q2))

\* C1: after every insert_product / remove_product / sync_from_db call, with
\* any arguments, the three values returned by sizes() are equal.
C1_SizesEqual ==
  /\ sizes(sets)[1] = sizes(sets)[2]
  /\ sizes(sets)[2] = sizes(sets)[3]

\* C2: after any completed SetManager mutation (insert_product,
\* remove_product, sync_from_db, reset) hash_set, index_set and btree_set
\* hold exactly the same set of identity keys.
C2_SameKeySets ==
  /\ HashKeys(sets) = IndexKeys(sets)
  /\ IndexKeys(sets) = BTreeKeys(sets)

\* C2 witness: a remove_product of a present key has completed and left
\* another key in the manager.
C2_Witness ==
  /\ last_call.op = "remove_product"
  /\ last_call.old # {}
  /\ HashKeys(sets) # {}

\* C3: from any manager state, two insert_product calls in a row with the
\* same identity key and different names leave exactly one entry with that
\* key in each container, and the sorted container no longer holds an entry
\* of that key under any other name.
C3_InsertTwiceOneEntry ==
  last_call.again =>
    /\ HashCount(sets, last_call.id) = 1
    /\ IndexCount(sets, last_call.id) = 1
    /\ BTreeCount(sets, last_call.id) = 1
    /\ \A q \in SeqRange(sets.btree_set) :
         q.id = last_call.id => q.name = last_call.name

\* C3 witness: the second of two such inserts has completed, the sorted
\* container held the key under the other name before it, and another key
\* is present too.
C3_Witness ==
  /\ last_call.again
  /\ \E q \in last_call.old : q.name # last_call.name
  /\ Cardinality(HashKeys(sets)) > 1

\* C4: after insert_product(e) on a manager that already holds e's key with
\* different attributes, the entry under that key in hash_set and in
\* index_set carries e's name, like the entry in btree_set.
C4_ReplacedInPlace ==
  (/\ last_call.op = "insert_product"
   /\ \E q \in last_call.old : q.name # last_call.name)
  =>
    /\ \A q \in sets.hash_set : q.id = last_call.id => q.name = last_call.name
    /\ \A q \in SeqRange(sets.index_set) :
         q.id = last_call.id => q.name = last_call.name
    /\ \A q \in SeqRange(sets.btree_set) :
         q.id = last_call.id => q.name = last_call.name

\* C10: remove_product(id) leaves no entry with key id in any container and
\* leaves every other entry (and the order of the ordered containers, and
\* the cached report) as it was; when id was in no container the whole
\* manager state is unchanged.
C10_RemoveFrame ==
  [][last_call'.op = "remove_product" =>
       LET id == last_call'.id IN
       /\ id \notin HashKeys(sets') \cup IndexKeys(sets') \cup BTreeKeys(sets')
       /\ sets'.hash_set = {q \in sets.hash_set : q.id # id}
       /\ SameOthersSeq(sets.index_set, sets'.index_set, id)
       /\ SameOthersSeq(sets.btree_set, sets'.btree_set, id)
       /\ sets'.last_report = sets.last_report
       /\ (EntriesOf(sets, id) = {} => sets' = sets)
    ]_vars

\* C10 witness: a remove_product of a present key has completed while the
\* manager keeps entries under another key.
C10_Witness ==
  /\ last_call.op = "remove_product"
  /\ last_call.old # {}
  /\ Len(sets.index_set) > 0
  /\ Len(sets.btree_set) > 0

\* The identity keys occurring in a list.
ListKeys(l) == {l[i].id : i \in 1..Len(l)}

\* C11: after sync_from_db(list) each of the three containers holds exactly
\* the identity keys occurring in list, whatever the manager held before:
\* nothing of the previous contents survives unless it is in list.
C11_SyncReplacesKeys ==
  last_call.op = "sync_from_db" =>
    /\ HashKeys(sets) = ListKeys(last_call.list)
    /\ IndexKeys(sets) = ListKeys(last_call.list)
    /\ BTreeKeys(sets) = ListKeys(last_call.list)

\* C11 witness: a sync_from_db with a non-empty list has completed on a
\* manager that held a key the list does not contain.
C11_Witness ==
  /\ last_call.op = "sync_from_db"
  /\ last_call.list # <<>>
  /\ last_call.had \ ListKeys(last_call.list) # {}

\* The identity keys of an ordered container, in iteration order.
KeySeq(s) == [i \in 1..Len(s) |-> s[i].id]

C13_BTreeSorted ==
  \A i, j \in 1..Len(sets.btree_set) :
    i < j =>
      \/ NameRank(sets.btree_set[i].name) < NameRank(sets.btree_set[j].name)
      \/ /\ sets.btree_set[i].name = sets.btree_set[j].name
         /\ sets.btree_set[i].id < sets.btree_set[j].id

\* C13 witness: the sorted container holds at least three entries, two of
\* them with equal names and two with different names.
C13_Witness ==
  /\ Len(sets.btree_set) > 2
  /\ \E i, j \in 1..Len(sets.btree_set) :
       i # j /\ sets.btree_set[i].name = sets.btree_set[j].name
  /\ \E i, j \in 1..Len(sets.btree_set) :
       sets.btree_set[i].name # sets.btree_set[j].name

\* ------------------------------------------------- the benchmark runner
\* run_benchmark on the manager, as its callers call it: with the rows
\* fetched from the store, and with any iteration order of the hash trial.
RunBenchmark ==
  \E l \in DbLists :
    \E horder \in HashOrders(l) :
      /\ sets' = run_benchmark(sets, l, horder)
      /\ last_call' = Call("run_benchmark", 0, "", l)
      /\ UNCHANGED apiVars

\* sync_from_db as its callers call it: with rows returned by the store.
SyncRows ==
  \E l \in DbLists :
    /\ sets' = sync_from_db(sets, l)
    /\ last_call' = Call("sync_from_db", 0, "", l)
    /\ UNCHANGED apiVars

NextBench ==
  \/ InsertProduct
  \/ RemoveProduct
  \/ SyncRows
  \/ Reset
  \/ RunBenchmark

SpecBench == Init /\ [][NextBench]_vars

\* get_report: the cached report if there is one, the "No benchmark has
\* been run yet" message otherwise, with the current sizes either way.
get_report(m) ==
  [none_yet |-> m.last_report = <<>>,
   report |-> m.last_report,
   current_set_sizes |-> sizes(m)]

\* C18: run_benchmark on a list of N entities with distinct identity keys
\* returns a report with product_count = N and exactly three container
\* results and leaves the live containers holding exactly those N entities,
\* whatever they held before; an insert_product of one new entity right
\* after it yields sizes (N+1, N+1, N+1).
C18_BenchmarkResyncs ==
  /\ (last_call.op = "run_benchmark" /\ DistinctKeys(last_call.list)) =>
       /\ Len(sets.last_report) = 1
       /\ sets.last_report[1].product_count = Len(last_call.list)
       /\ Len(sets.last_report[1].results) = 3
       /\ sets.hash_set = SeqRange(last_call.list)
       /\ SeqRange(sets.index_set) = SeqRange(last_call.list)
       /\ SeqRange(sets.btree_set) = SeqRange(last_call.list)
       /\ sizes(sets) = <<Len(last_call.list), Len(last_call.list), Len(last_call.list)>>
  /\ last_call.after_bench >= 0 =>
       sizes(sets) = <<last_call.after_bench + 1, last_call.after_bench + 1,
                       last_call.after_bench + 1>>

\* C18 witness: a benchmark on a non-empty list ran on a manager holding
\* another key, and the insert_product of a new entity has followed it.
C18_Witness ==
  /\ last_call.op = "insert_product"
  /\ last_call.after_bench > 0
  /\ last_call.had # {}
  /\ Len(sets.last_report) = 1

\* C20: last_report holds the report of the last run_benchmark until the
\* next run_benchmark overwrites it or reset clears it; insert_product,
\* remove_product and sync_from_db never change it; and get_report answers
\* "none yet" exactly when no benchmark has completed since start-up or the
\* last reset.
C20_ReportRetained ==
  [][/\ last_call'.op \in {"insert_product", "remove_product", "sync_from_db"} =>
          sets'.last_report = sets.last_report
     /\ last_call'.op = "reset" => sets'.last_report = <<>>
     /\ last_call'.op = "run_benchmark" =>
          /\ Len(sets'.last_report) = 1
          /\ sets'.last_report[1].product_count = Len(last_call'.list)
          /\ get_report(sets').report = sets'.last_report
     /\ get_report(sets').none_yet <=> ~last_call'.benched
    ]_vars

\* C20 witness: a report is still cached after a later sync_from_db changed
\* the live containers to another population.
C20_Witness ==
  /\ last_call.op = "sync_from_db"
  /\ last_call.benched
  /\ Len(sets.last_report) = 1
  /\ sets.last_report[1].product_count # Len(sets.index_set)
  /\ ~get_report(sets).none_yet

\* C32: reset() leaves all three containers empty (sizes() = (0, 0, 0)) and
\* last_report absent, whatever the manager held before.
C32_ResetEmptiesAll ==
  last_call.op = "reset" =>
    /\ sizes(sets) = <<0, 0, 0>>
    /\ sets.hash_set = {}
    /\ sets.index_set = <<>>
    /\ sets.btree_set = <<>>
    /\ sets.last_report = <<>>
    /\ get_report(sets).none_yet

\* A reset of a manager that held every identity key.
C32_Witness ==
  /\ last_call.op = "reset"
  /\ last_call.had = Ids
  /\ sets.btree_set = <<>>

\* ------------------------------------------------- one benchmark run
\* Populations for a benchmark run on its own: n entities with distinct
\* identity keys, any names, the keys ascending or descending along the
\* list.
BenchLists ==
  UNION {{[i \in 1..n |-> [id |-> IF rev THEN n + 1 - i ELSE i, name |-> names[i]]] :
            names \in [1..n -> Names], rev \in BOOLEAN} : n \in 0..MaxBench}

InitTrial ==
  /\ sets = NewManager
  /\ last_call = NoCall
  /\ InitApi
  /\ bench_in \in BenchLists
  /\ bench_out = <<>>
  /\ InitMore

\* run_benchmark(bench_in) on a fresh manager; bench_out is the report it
\* returns.
RunTrial ==
  /\ bench_out = <<>>
  /\ \E horder \in HashOrders(bench_in) :
       /\ sets' = run_benchmark(sets, bench_in, horder)
       /\ bench_out' = <<BenchmarkReport(bench_in, horder)>>
       /\ trial_sets' = <<RemoveHalf(bench_in, horder)>>
  /\ UNCHANGED <<last_call, store, next_id, metrics, pc, req, last_done,
                 lockVars, stressVars, bench_in, entries, m_call, all_lats,
                 lat_stats, resp, devolutions, timings, probe_in, probes, pool,
                 product_counts, auxVars>>

NextTrial == RunTrial

SpecTrial == InitTrial /\ [][NextTrial]_vars

\* Number of input entities whose name sorts before (strictly, or not
\* after) name x.
NamesBefore(l, x) ==
  Cardinality({j \in 1..Len(l) : NameRank(l[j].name) < NameRank(x)})

NamesUpTo(l, x) ==
  Cardinality({j \in 1..Len(l) : NameRank(l[j].name) <= NameRank(x)})

\* C19: for every container result of run_benchmark on a population of N
\* entities, iteration_order_sample has length min(N, 10) and is the prefix
\* of the container's iteration order: the i-th input name for the
\* insertion-ordered container, the i-th smallest name of the whole
\* population for the sorted container, names of the population for the
\* hash container.
C19_OrderSamplePrefix ==
  bench_out # <<>> =>
    LET r == bench_out[1].results
        N == Len(bench_in)
        k == IF N < 10 THEN N ELSE 10
    IN  /\ \A c \in 1..3 : Len(r[c].iteration_order_sample) = k
        /\ \A i \in 1..k :
             /\ r[2].iteration_order_sample[i] = bench_in[i].name
             /\ NamesBefore(bench_in, r[3].iteration_order_sample[i]) < i
             /\ NamesUpTo(bench_in, r[3].iteration_order_sample[i]) >= i
             /\ \E j \in 1..N : bench_in[j].name = r[1].iteration_order_sample[i]

\* C19 witness: a run on more than ten entities whose only "Alpha" is the
\* eleventh: the sorted sample starts with it, the insertion-ordered sample
\* does not contain it.
C19_Witness ==
  /\ bench_out # <<>>
  /\ Len(bench_in) > 10
  /\ \A i \in 1..10 : bench_in[i].name = "Zebra"
  /\ bench_in[11].name = "Alpha"
  /\ bench_out[1].results[3].iteration_order_sample[1] = "Alpha"
  /\ bench_out[1].results[2].iteration_order_sample[1] = "Zebra"

\* C28: on a population of N entities each trial removes exactly floor(N/2)
\* entities, the first floor(N/2) of its container's iteration order, and
\* its container holds the other N - floor(N/2) afterwards.
C28_RemovesFirstHalf ==
  trial_sets # <<>> =>
    LET t == trial_sets[1]
        N == Len(bench_in)
        k == N \div 2
        sorted == BTreeFill(bench_in, N)
    IN  /\ Cardinality(t.hash_set) = N - k
        /\ t.hash_set = {t.hash_iter[i] : i \in (k + 1)..N}
        /\ Len(t.index_set) = N - k
        /\ SeqRange(t.index_set) = {bench_in[i] : i \in (k + 1)..N}
        /\ Len(t.btree_set) = N - k
        /\ t.btree_set = SubSeq(sorted, k + 1, N)

\* A trial on five entities: two are removed, three are left, and the
\* sorted container has lost other entities than the insertion-ordered one.
C28_Witness ==
  /\ trial_sets # <<>>
  /\ Len(bench_in) = 5
  /\ Len(trial_sets[1].index_set) = 3
  /\ Cardinality(trial_sets[1].hash_set) = 3
  /\ SeqRange(trial_sets[1].btree_set) # SeqRange(trial_sets[1].index_set)

\* ------------------------------------------------- db/mod.rs
\* The stored row with identity key id, as a set (empty when absent).
Rows(id) == {q \in store : q.id = id}

\* fetch_product_by_id on a present key.
RowOf(id) == CHOOSE q \in store : q.id = id

\* ------------------------------------------------- request plumbing
\* The handler of task t returns: the task is free again.
Finish(t, kind, ok, renamed) ==
  /\ pc' = [pc EXCEPT ![t] = "idle"]
  /\ req' = [req EXCEPT ![t] = NoReq]
  /\ last_done' = [kind |-> kind, ok |-> ok, renamed |-> renamed]

\* The handler of task t moves on to await point l with locals r.
Goto(t, l, r) ==
  /\ pc' = [pc EXCEPT ![t] = l]
  /\ req' = [req EXCEPT ![t] = r]
  /\ UNCHANGED last_done

AllIdle == \A t \in Tasks : pc[t] = "idle"

\* ------------------------------------------------- handlers/products.rs
\* create_product up to its first await: the payload is validated, and an
\* empty name is rejected before the store is touched.
StartCreate(t) ==
  /\ pc[t] = "idle"
  /\ metrics + 2 <= MaxMetrics
  /\ \E n \in Names \cup {""} :
       IF n = ""
       THEN /\ Finish(t, "create", FALSE, FALSE)
            /\ UNCHANGED <<mgrVars, lockVars, stressVars, benchVars, moreVars, store, next_id, metrics>>
       ELSE /\ Goto(t, "create_db", [NoReq EXCEPT !.kind = "create", !.name = n])
            /\ UNCHANGED <<mgrVars, lockVars, stressVars, benchVars, moreVars, store, next_id, metrics>>

\* db::insert_product(...).await? : the store assigns the identity key.
CreateDb(t) ==
  /\ pc[t] = "create_db"
  /\ \E ok \in BOOLEAN :
       IF ok /\ next_id <= NumIds
       THEN LET p == [id |-> next_id, name |-> req[t].name] IN
            /\ store' = store \cup {p}
            /\ next_id' = next_id + 1
            /\ Goto(t, "create_sets", [req[t] EXCEPT !.id = p.id, !.prod = p])
            /\ UNCHANGED <<mgrVars, lockVars, stressVars, benchVars, moreVars, metrics>>
       ELSE /\ Finish(t, "create", FALSE, FALSE)
            /\ UNCHANGED <<mgrVars, lockVars, stressVars, benchVars, moreVars, store, next_id, metrics>>

\* state.sets.write().await.insert_product(&product)
CreateSets(t) ==
  /\ pc[t] = "create_sets"
  /\ sets' = insert_product(sets, req[t].prod)
  /\ Goto(t, "create_metrics", req[t])
  /\ UNCHANGED <<last_call, lockVars, stressVars, benchVars, moreVars, store, next_id, metrics>>

\* The two metric entries of create_product, then the response.
CreateMetrics(t) ==
  /\ pc[t] = "create_metrics"
  /\ metrics' = metrics + 2
  /\ Finish(t, "create", TRUE, FALSE)
  /\ UNCHANGED <<mgrVars, lockVars, stressVars, benchVars, moreVars, store, next_id>>

\* update_product up to its first await.  A payload name of "" stands for
\* name: None (keep the stored name).
StartUpdate(t) ==
  /\ pc[t] = "idle"
  /\ metrics + 2 <= MaxMetrics
  /\ \E id \in Ids, n \in Names \cup {""} :
       Goto(t, "update_fetch", [NoReq EXCEPT !.kind = "update", !.id = id, !.name = n])
  /\ UNCHANGED <<mgrVars, lockVars, stressVars, benchVars, moreVars, store, next_id, metrics>>

\* db::update_product, first query: fetch the existing row to merge with.
UpdateFetch(t) ==
  /\ pc[t] = "update_fetch"
  /\ \E ok \in BOOLEAN :
       IF ok /\ Rows(req[t].id) # {}
       THEN Goto(t, "update_db", [req[t] EXCEPT !.prod = RowOf(req[t].id)])
       ELSE Finish(t, "update", FALSE, FALSE)
  /\ UNCHANGED <<mgrVars, lockVars, stressVars, benchVars, moreVars, store, next_id, metrics>>

\* db::update_product, second query: UPDATE ... WHERE id = $7 RETURNING ...
UpdateDb(t) ==
  /\ pc[t] = "update_db"
  /\ \E ok \in BOOLEAN :
       IF ok /\ Rows(req[t].id) # {}
       THEN LET existing == req[t].prod
                p == [id |-> req[t].id,
                      name |-> IF req[t].name = "" THEN existing.name ELSE req[t].name]
            IN  /\ store' = (store \ Rows(req[t].id)) \cup {p}
                /\ Goto(t, "update_sets", [req[t] EXCEPT !.prod = p])
       ELSE /\ Finish(t, "update", FALSE, FALSE)
            /\ UNCHANGED store
  /\ UNCHANGED <<mgrVars, lockVars, stressVars, benchVars, moreVars, next_id, metrics>>

\* The update path's manager section, under one write guard.
UpdateSetsNoRemove(m, id, p) == insert_product(m, p)

UpdateSets(m, id, p) == insert_product(remove_product(m, id), p)

UpdateSetsStep(t) ==
  /\ pc[t] = "update_sets"
  /\ sets' = UpdateSets(sets, req[t].id, req[t].prod)
  /\ Goto(t, "update_metrics", req[t])
  /\ UNCHANGED <<last_call, lockVars, stressVars, benchVars, moreVars, store, next_id, metrics>>

UpdateMetrics(t) ==
  /\ pc[t] = "update_metrics"
  /\ metrics' = metrics + 2
  /\ Finish(t, "update", TRUE, req[t].name # "")
  /\ UNCHANGED <<mgrVars, lockVars, stressVars, benchVars, moreVars, store, next_id>>

\* delete_product up to its first await.
StartDelete(t) ==
  /\ pc[t] = "idle"
  /\ metrics + 2 <= MaxMetrics
  /\ \E id \in Ids :
       Goto(t, "delete_db", [NoReq EXCEPT !.kind = "delete", !.id = id])
  /\ UNCHANGED <<mgrVars, lockVars, stressVars, benchVars, moreVars, store, next_id, metrics>>

\* A delete_product that takes the entity out of the containers before the
\* store has answered.
DeleteDbEager(t) ==
  /\ pc[t] = "delete_db"
  /\ sets' = remove_product(sets, req[t].id)
  /\ \E ok \in BOOLEAN :
       IF ok /\ Rows(req[t].id) # {}
       THEN /\ store' = store \ Rows(req[t].id)
            /\ Goto(t, "delete_sets", req[t])
       ELSE /\ Finish(t, "delete", FALSE, FALSE)
            /\ UNCHANGED store
  /\ UNCHANGED <<last_call, lockVars, stressVars, benchVars, moreVars, next_id, metrics>>

\* db::delete_product(...).await? : NotFound when no row was deleted.
DeleteDb(t) ==
  /\ pc[t] = "delete_db"
  /\ \E ok \in BOOLEAN :
       IF ok /\ Rows(req[t].id) # {}
       THEN /\ store' = store \ Rows(req[t].id)
            /\ Goto(t, "delete_sets", req[t])
       ELSE /\ Finish(t, "delete", FALSE, FALSE)
            /\ UNCHANGED store
  /\ UNCHANGED <<mgrVars, lockVars, stressVars, benchVars, moreVars, next_id, metrics>>

\* state.sets.write().await.remove_product(id)
DeleteSets(t) ==
  /\ pc[t] = "delete_sets"
  /\ sets' = remove_product(sets, req[t].id)
  /\ Goto(t, "delete_metrics", req[t])
  /\ UNCHANGED <<last_call, lockVars, stressVars, benchVars, moreVars, store, next_id, metrics>>

DeleteMetrics(t) ==
  /\ pc[t] = "delete_metrics"
  /\ metrics' = metrics + 2
  /\ Finish(t, "delete", TRUE, FALSE)
  /\ UNCHANGED <<mgrVars, lockVars, stressVars, benchVars, moreVars, store, next_id>>

\* ------------------------------------------------- sequential CRUD traffic
\* One client issuing create / update / delete requests one after another.
NextCrud ==
  \/ StartCreate(1)
  \/ CreateDb(1)
  \/ CreateSets(1)
  \/ CreateMetrics(1)
  \/ StartUpdate(1)
  \/ UpdateFetch(1)
  \/ UpdateDb(1)
  \/ UpdateSetsStep(1)
  \/ UpdateMetrics(1)
  \/ StartDelete(1)
  \/ DeleteDb(1)
  \/ DeleteSets(1)
  \/ DeleteMetrics(1)

SpecCrud == Init /\ [][NextCrud]_vars

\* The three containers hold exactly the rows of the store: the same
\* identity keys, each once, under the stored name.
Mirrors(m, rows) ==
  /\ m.hash_set = rows
  /\ SeqRange(m.index_set) = rows
  /\ Len(m.index_set) = Cardinality(rows)
  /\ SeqRange(m.btree_set) = rows
  /\ Len(m.btree_set) = Cardinality(rows)

\* C8: for non-overlapping create / update / delete requests starting from
\* an empty store and an empty manager, after each request every container
\* holds exactly the store's identity keys, each under the name currently
\* stored for it.
C8_ManagerMirrorsStore == pc[1] = "idle" => Mirrors(sets, store)

\* C8 witness: a successful renaming update has returned while the store
\* holds two products.
C8_Witness ==
  /\ pc[1] = "idle"
  /\ last_done.kind = "update"
  /\ last_done.ok
  /\ last_done.renamed
  /\ Cardinality(store) = 2
  /\ \E q \in store : q.name = "Alpha"
  /\ \E q \in store : q.name = "Zebra"

\* ------------------------------------------------- handlers/benchmark.rs
\* The rows seed_products inserts for the chosen names: fresh identity keys
\* in insertion order (one batch: the count is below the batch size).
SeedRows(names) ==
  [i \in 1..Len(names) |-> [id |-> next_id + i - 1, name |-> names[i]]]

\* seed_data up to its first await: the count is taken from the query.
StartSeed(t) ==
  /\ pc[t] = "idle"
  /\ \E n \in 0..MaxList :
       /\ next_id + n - 1 <= NumIds
       /\ \E names \in [1..n -> Names] :
            Goto(t, "seed_db", [NoReq EXCEPT !.kind = "seed", !.list = SeedRows(names)])
  /\ UNCHANGED <<mgrVars, lockVars, stressVars, benchVars, moreVars, store, next_id, metrics>>

\* seed::seed_products(...).await? : bulk insert, RETURNING the new rows.
SeedDb(t) ==
  /\ pc[t] = "seed_db"
  /\ \E ok \in BOOLEAN :
       IF ok /\ (req[t].list = <<>> \/ req[t].list[1].id = next_id)
       THEN /\ store' = store \cup SeqRange(req[t].list)
            /\ next_id' = next_id + Len(req[t].list)
            /\ Goto(t, "seed_sets", req[t])
       ELSE /\ Finish(t, "seed", FALSE, FALSE)
            /\ UNCHANGED <<store, next_id>>
  /\ UNCHANGED <<mgrVars, lockVars, stressVars, benchVars, moreVars, metrics>>

\* state.sets.write().await.sync_from_db(&products)
SeedSets(t) ==
  /\ pc[t] = "seed_sets"
  /\ sets' = sync_from_db(sets, req[t].list)
  /\ Goto(t, "seed_count", req[t])
  /\ UNCHANGED <<last_call, lockVars, stressVars, benchVars, moreVars, store, next_id, metrics>>

\* db::count_products(...).await? , then the response.
SeedCount(t) ==
  /\ pc[t] = "seed_count"
  /\ \E ok \in BOOLEAN : Finish(t, "seed", ok, FALSE)
  /\ UNCHANGED <<mgrVars, lockVars, stressVars, benchVars, moreVars, store, next_id, metrics>>

\* sets_status: one read guard on the manager, no store call.
StartStatus(t) ==
  /\ pc[t] = "idle"
  /\ Goto(t, "status_read", [NoReq EXCEPT !.kind = "sets_status"])
  /\ UNCHANGED <<mgrVars, lockVars, stressVars, benchVars, moreVars, store, next_id, metrics>>

StatusRead(t) ==
  /\ pc[t] = "status_read"
  /\ Finish(t, "sets_status", TRUE, FALSE)
  /\ UNCHANGED <<mgrVars, lockVars, stressVars, benchVars, moreVars, store, next_id, metrics>>

\* reset_all up to its first await.
StartReset(t) ==
  /\ pc[t] = "idle"
  /\ Goto(t, "reset_db", [NoReq EXCEPT !.kind = "reset"])
  /\ UNCHANGED <<mgrVars, lockVars, stressVars, benchVars, moreVars, store, next_id, metrics>>

\* 1. db::delete_all_products(...).await?
ResetDb(t) ==
  /\ pc[t] = "reset_db"
  /\ \E ok \in BOOLEAN :
       IF ok
       THEN /\ store' = {}
            /\ Goto(t, "reset_sets", req[t])
       ELSE /\ Finish(t, "reset", FALSE, FALSE)
            /\ UNCHANGED store
  /\ UNCHANGED <<mgrVars, lockVars, stressVars, benchVars, moreVars, next_id, metrics>>

\* 2. state.sets.write().await.reset()
ResetSets(t) ==
  /\ pc[t] = "reset_sets"
  /\ sets' = reset(sets)
  /\ Goto(t, "reset_metrics", req[t])
  /\ UNCHANGED <<last_call, lockVars, stressVars, benchVars, moreVars, store, next_id, metrics>>

\* 3. state.metrics.write().await.clear(), then the response.
ResetMetrics(t) ==
  /\ pc[t] = "reset_metrics"
  /\ metrics' = 0
  /\ Finish(t, "reset", TRUE, FALSE)
  /\ UNCHANGED <<mgrVars, lockVars, stressVars, benchVars, moreVars, store, next_id>>

\* ------------------------------------------------- sequential traffic
\* One client issuing every kind of request, one after another.
NextSeq ==
  \/ StartCreate(1)
  \/ CreateDb(1)
  \/ CreateSets(1)
  \/ CreateMetrics(1)
  \/ StartUpdate(1)
  \/ UpdateFetch(1)
  \/ UpdateDb(1)
  \/ UpdateSetsStep(1)
  \/ UpdateMetrics(1)
  \/ StartDelete(1)
  \/ DeleteDb(1)
  \/ DeleteSets(1)
  \/ DeleteMetrics(1)
  \/ StartSeed(1)
  \/ SeedDb(1)
  \/ SeedSets(1)
  \/ SeedCount(1)
  \/ StartReset(1)
  \/ ResetDb(1)
  \/ ResetSets(1)
  \/ ResetMetrics(1)

SpecSeq == Init /\ [][NextSeq]_vars

\* C9: after a seed request has completed with no other request in flight,
\* the manager's containers hold exactly the entities of the backing store,
\* whatever the store held before the seed.
C9_SeedResyncsWithStore ==
  (pc[1] = "idle" /\ last_done.kind = "seed" /\ last_done.ok)
    => Mirrors(sets, store)

\* ------------------------------------------------- concurrent traffic
\* NumTasks requests in flight at once, interleaved at their await points.
NextApi ==
  \E t \in Tasks :
    \/ StartCreate(t)
    \/ CreateDb(t)
    \/ CreateSets(t)
    \/ CreateMetrics(t)
    \/ StartUpdate(t)
    \/ UpdateFetch(t)
    \/ UpdateDb(t)
    \/ UpdateSetsStep(t)
    \/ UpdateMetrics(t)
    \/ StartDelete(t)
    \/ DeleteDb(t)
    \/ DeleteSets(t)
    \/ DeleteMetrics(t)
    \/ StartStatus(t)
    \/ StatusRead(t)
    \/ StartReset(t)
    \/ ResetDb(t)
    \/ ResetSets(t)
    \/ ResetMetrics(t)

SpecApi == Init /\ [][NextApi]_vars

\* The store, the manager (with its cached report) and the metrics store
\* are all empty.
AllCleared ==
  /\ store = {}
  /\ sets = NewManager
  /\ metrics = 0

\* While a reset has cleared the store but not yet the manager and the
\* metrics store, no sets_status request is about to read the manager
\* unless all three are already empty.
NoPartialResetObserved ==
  \A t, u \in Tasks :
    (/\ t # u
     /\ pc[t] \in {"reset_sets", "reset_metrics"}
     /\ pc[u] = "status_read")
    => AllCleared

\* C7: a reset is atomic for every other request: no concurrently running
\* request finds some but not all of the store, the manager (with its cached
\* report) and the metrics store cleared, and at the moment the reset
\* completes all three are empty.
C7_ResetAtomic ==
  [][/\ NoPartialResetObserved'
     /\ \A t \in Tasks :
          (pc[t] = "reset_metrics" /\ pc'[t] = "idle") => AllCleared'
    ]_vars

\* ------------------------------------------------- the manager's RwLock
\* tokio::sync::RwLock: a read guard is granted while no write guard is
\* held; a write guard only while no guard at all is held.
CanReadAlways(l) == TRUE

CanRead(l) == l.writer = 0

CanWrite(l) == l.writer = 0 /\ l.readers = {}

\* The write guard of the update path between its remove_product and its
\* insert_product: the same guard stays alive across both calls.
GuardDroppedAfterRemove(l) == [l EXCEPT !.writer = 0]

GuardAfterRemove(l) == l

\* What the manager sections have in common: the task moves to label l,
\* nothing but the manager, the lock and the task changes.
LockGoto(t, l, r) ==
  /\ pc' = [pc EXCEPT ![t] = l]
  /\ req' = [req EXCEPT ![t] = r]
  /\ UNCHANGED <<last_call, store, next_id, metrics, last_done, committed, stressVars, benchVars, moreVars>>

\* sets.read().await of get_product / get_report / sets_status / stress read.
AcquireRead(t) ==
  /\ pc[t] = "idle"
  /\ CanRead(lock)
  /\ lock' = [lock EXCEPT !.readers = @ \cup {t}]
  /\ LockGoto(t, "reading", [NoReq EXCEPT !.kind = "read"])
  /\ UNCHANGED sets

\* The read guard is dropped.
ReleaseRead(t) ==
  /\ pc[t] = "reading"
  /\ lock' = [lock EXCEPT !.readers = @ \ {t}]
  /\ LockGoto(t, "idle", NoReq)
  /\ UNCHANGED sets

\* sets.write().await of create_product: insert_product(&product).
AcquireWriteCreate(t) ==
  /\ pc[t] = "idle"
  /\ CanWrite(lock)
  /\ lock' = [lock EXCEPT !.writer = t]
  /\ \E p \in Product :
       /\ p.id \notin HashKeys(sets)       \* Uuid::new_v4(): a fresh id
       /\ LockGoto(t, "ins_hash", [NoReq EXCEPT !.kind = "create", !.id = p.id, !.prod = p])
  /\ UNCHANGED sets

\* sets.write().await of update_product and of the stress update:
\* remove_product(id) then insert_product(&product).
AcquireWriteUpdate(t) ==
  /\ pc[t] = "idle"
  /\ CanWrite(lock)
  /\ lock' = [lock EXCEPT !.writer = t]
  /\ \E p \in Product :
       LockGoto(t, "rem_hash", [NoReq EXCEPT !.kind = "update", !.id = p.id, !.prod = p])
  /\ UNCHANGED sets

\* sets.write().await of delete_product: remove_product(id).
AcquireWriteDelete(t) ==
  /\ pc[t] = "idle"
  /\ CanWrite(lock)
  /\ lock' = [lock EXCEPT !.writer = t]
  /\ \E id \in Ids :
       LockGoto(t, "rem_hash", [NoReq EXCEPT !.kind = "delete", !.id = id])
  /\ UNCHANGED sets

\* sets.write().await of seed_data: sync_from_db(&products).
AcquireWriteSync(t) ==
  /\ pc[t] = "idle"
  /\ CanWrite(lock)
  /\ lock' = [lock EXCEPT !.writer = t]
  /\ \E l \in DbLists :
       LockGoto(t, "clr_hash", [NoReq EXCEPT !.kind = "seed", !.id = 1, !.list = l])
  /\ UNCHANGED sets

\* sets.write().await of reset_all: reset().
AcquireWriteReset(t) ==
  /\ pc[t] = "idle"
  /\ CanWrite(lock)
  /\ lock' = [lock EXCEPT !.writer = t]
  /\ LockGoto(t, "clr_hash", [NoReq EXCEPT !.kind = "reset"])
  /\ UNCHANGED sets

\* insert_product, statement by statement.
StepInsHash(t) ==
  /\ pc[t] = "ins_hash"
  /\ sets' = InsertHash(sets, req[t].prod)
  /\ LockGoto(t, "ins_index", req[t])
  /\ UNCHANGED lock

StepInsIndex(t) ==
  /\ pc[t] = "ins_index"
  /\ sets' = InsertIndex(sets, req[t].prod)
  /\ LockGoto(t, "ins_btree", req[t])
  /\ UNCHANGED lock

StepInsBTree(t) ==
  /\ pc[t] = "ins_btree"
  /\ sets' = InsertBTree(sets, req[t].prod)
  /\ LockGoto(t, "release", req[t])
  /\ UNCHANGED lock

\* remove_product, statement by statement; the update path goes on to
\* insert_product under the same guard.
StepRemHash(t) ==
  /\ pc[t] = "rem_hash"
  /\ sets' = RemoveHash(sets, req[t].id)
  /\ LockGoto(t, "rem_index", req[t])
  /\ UNCHANGED lock

StepRemIndex(t) ==
  /\ pc[t] = "rem_index"
  /\ sets' = RemoveIndex(sets, req[t].id)
  /\ LockGoto(t, "rem_btree", req[t])
  /\ UNCHANGED lock

StepRemBTree(t) ==
  /\ pc[t] = "rem_btree"
  /\ sets' = RemoveBTree(sets, req[t].id)
  /\ IF req[t].kind = "update"
     THEN /\ LockGoto(t, "ins_hash", req[t])
          /\ lock' = GuardAfterRemove(lock)
     ELSE /\ LockGoto(t, "release", req[t])
          /\ UNCHANGED lock

\* The clear() calls of sync_from_db and reset, one container at a time.
StepClearHash(t) ==
  /\ pc[t] = "clr_hash"
  /\ sets' = [sets EXCEPT !.hash_set = {}]
  /\ LockGoto(t, "clr_index", req[t])
  /\ UNCHANGED lock

StepClearIndex(t) ==
  /\ pc[t] = "clr_index"
  /\ sets' = [sets EXCEPT !.index_set = <<>>]
  /\ LockGoto(t, "clr_btree", req[t])
  /\ UNCHANGED lock

StepClearBTree(t) ==
  /\ pc[t] = "clr_btree"
  /\ sets' = [sets EXCEPT !.btree_set = <<>>]
  /\ LockGoto(t, IF req[t].kind = "reset" THEN "clr_report"
                 ELSE IF req[t].list = <<>> THEN "release" ELSE "sync_loop", req[t])
  /\ UNCHANGED lock

\* One iteration of sync_from_db's loop (req.id is the loop index).
StepSyncOne(t) ==
  /\ pc[t] = "sync_loop"
  /\ sets' = SyncOne(sets, req[t].list[req[t].id])
  /\ LockGoto(t, IF req[t].id = Len(req[t].list) THEN "release" ELSE "sync_loop",
              [req[t] EXCEPT !.id = @ + 1])
  /\ UNCHANGED lock

\* reset: self.last_report = None
StepClearReport(t) ==
  /\ pc[t] = "clr_report"
  /\ sets' = [sets EXCEPT !.last_report = <<>>]
  /\ LockGoto(t, "release", req[t])
  /\ UNCHANGED lock

\* The manager operation is complete and its write guard is dropped.
ReleaseWrite(t) ==
  /\ pc[t] = "release"
  /\ lock' = [lock EXCEPT !.writer = 0]
  /\ committed' = sets
  /\ pc' = [pc EXCEPT ![t] = "idle"]
  /\ req' = [req EXCEPT ![t] = NoReq]
  /\ last_done' = [kind |-> req[t].kind, ok |-> TRUE, renamed |-> FALSE]
  /\ UNCHANGED <<sets, last_call, store, next_id, metrics, stressVars, benchVars, moreVars>>

NextLock ==
  \E t \in Tasks :
    \/ AcquireRead(t)
    \/ ReleaseRead(t)
    \/ AcquireWriteCreate(t)
    \/ AcquireWriteUpdate(t)
    \/ AcquireWriteDelete(t)
    \/ AcquireWriteSync(t)
    \/ AcquireWriteReset(t)
    \/ StepInsHash(t)
    \/ StepInsIndex(t)
    \/ StepInsBTree(t)
    \/ StepRemHash(t)
    \/ StepRemIndex(t)
    \/ StepRemBTree(t)
    \/ StepClearHash(t)
    \/ StepClearIndex(t)
    \/ StepClearBTree(t)
    \/ StepSyncOne(t)
    \/ StepClearReport(t)
    \/ ReleaseWrite(t)

SpecLock == Init /\ [][NextLock]_vars

\* Task t is inside a manager operation (between taking the write guard and
\* completing the operation).
Writing(t) == pc[t] \notin {"idle", "reading"}

\* C5: while one task holds the manager's write access no other task reads
\* or writes it, so the manager state a task observes under a read guard is
\* always the state left by completed operations (insert_product,
\* remove_product, sync_from_db, reset, and the update path's remove-then-
\* insert pair as one unit): no reader sees an operation half applied, nor
\* an entity absent in the middle of its update.
C5_WriteExclusive ==
  /\ \A t, u \in Tasks : (Writing(t) /\ t # u) => pc[u] = "idle"
  /\ \A t \in Tasks : pc[t] = "reading" => sets = committed
  /\ \A t \in Tasks :
       pc[t] = "reading" =>
         \A u \in Tasks : ~(req[u].kind = "update" /\ Writing(u))

\* C5 witness: after an update has completed, two readers hold read guards
\* at once on a manager that holds the updated entity.
C5_Witness ==
  /\ last_done.kind = "update"
  /\ Cardinality(lock.readers) > 1
  /\ \A t \in lock.readers : pc[t] = "reading"
  /\ sets.hash_set # {}

\* ------------------------------------------------- handlers/stress.rs
\* What the stress steps leave alone: the CRUD tasks, the metrics and the
\* lock bookkeeping of the other specifications.
\* What a step of run_stress_test leaves alone, the two product counts apart.
StressFrameCounting ==
  UNCHANGED <<last_call, metrics, pc, req, last_done, lockVars, benchVars,
              entries, m_call, all_lats, lat_stats, resp, devolutions, timings,
              trial_sets, probe_in, probes, pool, auxVars>>

StressFrame ==
  UNCHANGED <<last_call, metrics, pc, req, last_done, lockVars, benchVars, moreVars>>

\* run_stress_test up to its first await: the parameters are clamped and
\* the optional pre-seed is prepared.
StressStart ==
  /\ s_pc = "idle"
  /\ \E c \in 1..MaxConc, k \in 1..MaxOps, n \in 0..MaxList, some \in BOOLEAN :
       /\ next_id + n - 1 <= NumIds
       /\ \E names \in [1..n -> Names] :
            IF some
            THEN /\ params' = [concurrency |-> c, ops_per_user |-> k,
                               seed_count |-> <<n>>, list |-> SeedRows(names)]
                 /\ s_pc' = "seed_db"
            ELSE /\ n = 0
                 /\ params' = [concurrency |-> c, ops_per_user |-> k,
                               seed_count |-> <<>>, list |-> <<>>]
                 /\ s_pc' = "count"
  /\ report' = NoReport
  /\ UNCHANGED <<sets, store, next_id, existing_ids, counters, lat_len, w_pc, w_op>>
  /\ StressFrame

\* seed::seed_products(&state.db, n).await?
StressSeedDb ==
  /\ s_pc = "seed_db"
  /\ \E ok \in BOOLEAN :
       IF ok
       THEN /\ store' = store \cup SeqRange(params.list)
            /\ next_id' = next_id + Len(params.list)
            /\ s_pc' = "seed_sets"
            /\ UNCHANGED report
       ELSE /\ s_pc' = "idle"
            /\ report' = [NoReport EXCEPT !.status = 500]
            /\ UNCHANGED <<store, next_id>>
  /\ UNCHANGED <<sets, params, existing_ids, counters, lat_len, w_pc, w_op>>
  /\ StressFrame

\* state.sets.write().await.sync_from_db(&products)
StressSeedSets ==
  /\ s_pc = "seed_sets"
  /\ sets' = sync_from_db(sets, params.list)
  /\ s_pc' = "count"
  /\ UNCHANGED <<store, next_id, params, existing_ids, counters, lat_len, w_pc, w_op, report>>
  /\ StressFrame

\* db::count_products(...).await? ; an empty store is a BAD_REQUEST.
StressCount ==
  /\ s_pc = "count"
  /\ \E ok \in BOOLEAN :
       IF ~ok
       THEN /\ s_pc' = "idle"
            /\ report' = [NoReport EXCEPT !.status = 500]
            /\ UNCHANGED product_counts
       ELSE /\ product_counts' = [before |-> Cardinality(store), after |-> 0]
            /\ IF Cardinality(store) = 0
               THEN /\ s_pc' = "idle"
                    /\ report' = [NoReport EXCEPT !.status = 400]
               ELSE /\ s_pc' = "snapshot"
                    /\ UNCHANGED report
  /\ UNCHANGED <<sets, store, next_id, params, existing_ids, counters, lat_len, w_pc, w_op>>
  /\ StressFrameCounting

\* The counters and latency lists are created, the id snapshot is fetched
\* and the workers are spawned.
StressSnapshot ==
  /\ s_pc = "snapshot"
  /\ \E ok \in BOOLEAN :
       IF ok
       THEN /\ existing_ids' = {q.id : q \in store}
            /\ counters' = ZeroCounters
            /\ lat_len' = ZeroLats
            /\ w_pc' = [w \in Workers |->
                          IF w <= params.concurrency THEN "roll" ELSE "off"]
            /\ w_op' = [w \in Workers |-> NoOp]
            /\ s_pc' = "join"
            /\ UNCHANGED report
       ELSE /\ s_pc' = "idle"
            /\ report' = [NoReport EXCEPT !.status = 500]
            /\ UNCHANGED <<existing_ids, counters, lat_len, w_pc, w_op>>
  /\ UNCHANGED <<sets, store, next_id, params>>
  /\ StressFrame

\* Worker w moves to label l with operation o.
WGoto(w, l, o) ==
  /\ w_pc' = [w_pc EXCEPT ![w] = l]
  /\ w_op' = [w_op EXCEPT ![w] = o]
  /\ UNCHANGED <<s_pc, params, existing_ids, report>>
  /\ StressFrame

\* counter.fetch_add(1)
Bump(c) == [counters EXCEPT ![c] = @ + 1]

\* The roll picks the operation kind; ids.choose picks the target (None on
\* an empty snapshot, and then the operation does nothing).
WRoll(w) ==
  /\ w_pc[w] = "roll"
  /\ \E kind \in {"read", "create", "update", "delete"} :
       IF kind = "create"
       THEN \E nm \in Names :
              WGoto(w, "db", [w_op[w] EXCEPT !.kind = kind, !.id = 0, !.name = nm,
                                              !.prod = <<>>, !.err = FALSE])
       ELSE IF existing_ids = {}
       THEN WGoto(w, "lat", [w_op[w] EXCEPT !.kind = kind, !.id = 0, !.name = "",
                                             !.prod = <<>>, !.err = FALSE])
       ELSE \E id \in existing_ids :
              WGoto(w, "db", [w_op[w] EXCEPT !.kind = kind, !.id = id, !.name = "",
                                              !.prod = <<>>, !.err = FALSE])
  /\ UNCHANGED <<sets, store, next_id, counters, lat_len>>

\* READ: db::fetch_product_by_id(&pool, id).await?
WReadDb(w) ==
  /\ w_pc[w] = "db"
  /\ w_op[w].kind = "read"
  /\ \E ok \in BOOLEAN :
       IF ok /\ Rows(w_op[w].id) # {}
       THEN WGoto(w, "sets", [w_op[w] EXCEPT !.prod = RowOf(w_op[w].id)])
       ELSE WGoto(w, "lat", [w_op[w] EXCEPT !.err = TRUE, !.failed = TRUE])
  /\ UNCHANGED <<sets, store, next_id, counters, lat_len>>

\* READ: sets.read().await.hash_set.contains(&prod); reads += 1
WReadSets(w) ==
  /\ w_pc[w] = "sets"
  /\ w_op[w].kind = "read"
  /\ counters' = Bump("reads")
  /\ WGoto(w, "kind_lat", w_op[w])
  /\ UNCHANGED <<sets, store, next_id, lat_len>>

\* CREATE: db::insert_product(&pool, &payload).await?
WCreateDb(w) ==
  /\ w_pc[w] = "db"
  /\ w_op[w].kind = "create"
  /\ \E ok \in BOOLEAN :
       IF ok /\ next_id <= NumIds
       THEN LET p == [id |-> next_id, name |-> w_op[w].name] IN
            /\ store' = store \cup {p}
            /\ next_id' = next_id + 1
            /\ WGoto(w, "sets", [w_op[w] EXCEPT !.id = p.id, !.prod = p])
       ELSE /\ WGoto(w, "lat", [w_op[w] EXCEPT !.err = TRUE, !.failed = TRUE])
            /\ UNCHANGED <<store, next_id>>
  /\ UNCHANGED <<sets, counters, lat_len>>

\* CREATE: sets.write().await.insert_product(&prod); creates += 1
WCreateSets(w) ==
  /\ w_pc[w] = "sets"
  /\ w_op[w].kind = "create"
  /\ sets' = insert_product(sets, w_op[w].prod)
  /\ counters' = Bump("creates")
  /\ WGoto(w, "kind_lat", w_op[w])
  /\ UNCHANGED <<store, next_id, lat_len>>

\* UPDATE: if let Ok(prod) = db::update_product(&pool, id, &payload).await
\* (the payload's name is None): on Err the block is skipped and the
\* operation's result is still Ok(()).
WUpdateDb(w) ==
  /\ w_pc[w] = "db"
  /\ w_op[w].kind = "update"
  /\ \E ok \in BOOLEAN :
       IF ok /\ Rows(w_op[w].id) # {}
       THEN WGoto(w, "sets", [w_op[w] EXCEPT !.prod = RowOf(w_op[w].id)])
       ELSE WGoto(w, "lat", [w_op[w] EXCEPT !.failed = TRUE])
  /\ UNCHANGED <<sets, store, next_id, counters, lat_len>>

\* UPDATE: one write guard: remove_product(id); insert_product(&prod);
\* updates += 1
WUpdateSets(w) ==
  /\ w_pc[w] = "sets"
  /\ w_op[w].kind = "update"
  /\ sets' = UpdateSets(sets, w_op[w].id, w_op[w].prod)
  /\ counters' = Bump("updates")
  /\ WGoto(w, "kind_lat", w_op[w])
  /\ UNCHANGED <<store, next_id, lat_len>>

\* DELETE as a real delete of the picked row and of its container entries.
WDeleteDbForReal(w) ==
  /\ w_pc[w] = "db"
  /\ w_op[w].kind = "delete"
  /\ \E ok \in BOOLEAN :
       IF ok /\ Rows(w_op[w].id) # {}
       THEN /\ counters' = Bump("deletes")
            /\ store' = store \ Rows(w_op[w].id)
            /\ sets' = remove_product(sets, w_op[w].id)
            /\ WGoto(w, "kind_lat", w_op[w])
       ELSE /\ WGoto(w, "lat", [w_op[w] EXCEPT !.err = TRUE, !.failed = TRUE])
            /\ UNCHANGED <<counters, store, sets>>
  /\ UNCHANGED <<next_id, lat_len>>

\* DELETE: a fetch only: db::fetch_product_by_id(&pool, id).await? ;
\* deletes += 1
WDeleteDb(w) ==
  /\ w_pc[w] = "db"
  /\ w_op[w].kind = "delete"
  /\ \E ok \in BOOLEAN :
       IF ok /\ Rows(w_op[w].id) # {}
       THEN /\ counters' = Bump("deletes")
            /\ WGoto(w, "kind_lat", w_op[w])
       ELSE /\ WGoto(w, "lat", [w_op[w] EXCEPT !.err = TRUE, !.failed = TRUE])
            /\ UNCHANGED counters
  /\ UNCHANGED <<sets, store, next_id, lat_len>>

\* rl / cl / ul / dl .lock().await.push(latency)
WKindLat(w) ==
  /\ w_pc[w] = "kind_lat"
  /\ lat_len' = [lat_len EXCEPT ![w_op[w].kind] = @ + 1]
  /\ WGoto(w, "lat", w_op[w])
  /\ UNCHANGED <<sets, store, next_id, counters>>

AfterOpStopOnErr(o, k) ==
  IF o.err \/ o.n + 1 = k THEN "done" ELSE "roll"

\* for op_i in 0..ops_per_user: where the worker goes after operation o,
\* whatever its result.
AfterOp(o, k) ==
  IF o.n + 1 = k THEN "done" ELSE "roll"

\* lats.lock().await.push(op_ms); if let Err(e) = result { errors += 1 };
\* then the next iteration, or the worker ends after ops_per_user of them.
WLat(w) ==
  /\ w_pc[w] = "lat"
  /\ lat_len' = [lat_len EXCEPT !.all = @ + 1]
  /\ counters' = IF w_op[w].err THEN Bump("errors") ELSE counters
  /\ WGoto(w, AfterOp(w_op[w], params.ops_per_user),
           [NoOp EXCEPT !.n = w_op[w].n + 1])
  /\ UNCHANGED <<sets, store, next_id>>

JoinedFirst == \E w \in Workers : w_pc[w] = "done"

\* while join_set.join_next().await.is_some() {} : every spawned worker has
\* ended.
JoinedAll == \A w \in Workers : w_pc[w] \in {"off", "done"}

\* while join_set.join_next().await.is_some() {} ; db::count_products(..).await?
StressJoin ==
  /\ s_pc = "join"
  /\ JoinedAll
  /\ \E ok \in BOOLEAN :
       IF ok
       THEN /\ s_pc' = "report"
            /\ product_counts' =
                 [product_counts EXCEPT !.after = Cardinality(store)]
            /\ UNCHANGED report
       ELSE /\ s_pc' = "idle"
            /\ report' = [NoReport EXCEPT !.status = 500]
            /\ UNCHANGED product_counts
  /\ w_pc' = [w \in Workers |-> IF w_pc[w] = "done" THEN "off" ELSE w_pc[w]]
  /\ w_op' = [w \in Workers |-> IF w_pc[w] = "done" THEN NoOp ELSE w_op[w]]
  /\ UNCHANGED <<sets, store, next_id, params, existing_ids, counters, lat_len>>
  /\ StressFrameCounting

\* The StressReport is built from the counters and the latency lists.
StressReport ==
  /\ s_pc = "report"
  /\ report' = [status |-> 200,
                total_ops |-> params.concurrency * params.ops_per_user,
                reads |-> counters.reads, creates |-> counters.creates,
                updates |-> counters.updates, deletes |-> counters.deletes,
                errors |-> counters.errors, latencies |-> lat_len.all]
  /\ s_pc' = "idle"
  /\ UNCHANGED <<sets, store, next_id, params, existing_ids, counters, lat_len, w_pc, w_op>>
  /\ StressFrame

NextStress ==
  \/ StressStart
  \/ StressSeedDb
  \/ StressSeedSets
  \/ StressCount
  \/ StressSnapshot
  \/ StressJoin
  \/ StressReport
  \/ \E w \in Workers :
       \/ WRoll(w)
       \/ WReadDb(w)
       \/ WReadSets(w)
       \/ WCreateDb(w)
       \/ WCreateSets(w)
       \/ WUpdateDb(w)
       \/ WUpdateSets(w)
       \/ WDeleteDb(w)
       \/ WKindLat(w)
       \/ WLat(w)

SpecStress == Init /\ [][NextStress]_vars

\* C6: when a stress run finishes, reads + creates + updates + deletes +
\* errors equals concurrency * ops_per_user: every worker operation is
\* counted exactly once, failed store calls included.
C6_EveryOpCounted ==
  report.status = 200 =>
    report.reads + report.creates + report.updates + report.deletes
      + report.errors = report.total_ops

\* Worker w completes an operation in this step (its latency goes to the
\* global list and its result is looked at).
OpEnds(w) == w_pc[w] = "lat" /\ w_pc'[w] # "lat"

\* C14: every stress operation whose backing-store call fails (fetch, insert
\* or update returning an error) increments the errors counter by exactly
\* one, no operation that succeeds increments it, and nothing else does.
C14_FailuresCounted ==
  [][/\ \A w \in Workers :
          OpEnds(w) =>
            counters'.errors =
              counters.errors + (IF w_op[w].failed THEN 1 ELSE 0)
     /\ counters'.errors > counters.errors => \E w \in Workers : OpEnds(w)
    ]_vars

\* C15: a failure in one stress operation never ends its worker or another
\* one: a worker that has ended has executed exactly ops_per_user
\* operations, so the global latency list holds concurrency * ops_per_user
\* entries when the report is computed.
C15_WorkersRunAllOps ==
  /\ \A w \in Workers : w_pc[w] = "done" => w_op[w].n = params.ops_per_user
  /\ s_pc = "report" => lat_len.all = params.concurrency * params.ops_per_user
  /\ report.status = 200 => report.latencies = report.total_ops

\* C15 witness: a run of several workers with several operations each has
\* produced its report although every one of its operations failed.
C15_Witness ==
  /\ report.status = 200
  /\ params.concurrency > 1
  /\ params.ops_per_user > 1
  /\ report.errors = report.total_ops

\* C16: when the run finishes, the length of the global latency list equals
\* the sum of the lengths of the read, create, update and delete latency
\* lists (each latency is appended to both).
C16_LatencyListsAgree ==
  report.status = 200 =>
    lat_len.all = lat_len.read + lat_len.create + lat_len.update + lat_len.delete

\* C17: the report's counters and latency lists are read only after all
\* spawned workers have ended: from the moment the handler passes the join
\* no worker is running, and the reported values are the final ones.
C17_ReportAfterJoin ==
  /\ s_pc = "report" => \A w \in Workers : w_pc[w] = "off"
  /\ report.status = 200 =>
       /\ \A w \in Workers : w_pc[w] = "off"
       /\ report.reads = counters.reads
       /\ report.creates = counters.creates
       /\ report.updates = counters.updates
       /\ report.deletes = counters.deletes
       /\ report.errors = counters.errors
       /\ report.latencies = lat_len.all

\* C17 witness: the report of a run with several workers has been built, and
\* the workers have touched the manager and the counters.
C17_Witness ==
  /\ report.status = 200
  /\ params.concurrency > 1
  /\ report.creates > 0
  /\ report.reads + report.updates > 0

\* ------------------------------------------------- metrics/mod.rs
\* The operation and container labels the entries carry, in the order
\* String::cmp gives them.
Operations == <<"insert", "lookup">>

SetTypes == <<"DB", "HashSet">>

\* duration_ns values.
Durations == {1, 4}

\* Position of a label in its ordered list.
LabelRank(labels, x) == CHOOSE i \in 1..Len(labels) : labels[i] = x

\* MetricEntry::new (the timestamp, the µs / ms copies of the duration, the
\* item count and the notes play no part in the store's computations).
MetricEntryNew(operation, set_type, duration_ns, success) ==
  [operation |-> operation, set_type |-> set_type,
   duration_ns |-> duration_ns, success |-> success]

MetricEntry ==
  {MetricEntryNew(Operations[o], SetTypes[t], d, ok) :
     o \in 1..Len(Operations), t \in 1..Len(SetTypes), d \in Durations,
     ok \in BOOLEAN}

\* An entry put in front of the log instead of behind it.
record_front(log, entry) == <<entry>> \o log

\* MetricsStore::record: self.entries.push(entry)
record(log, entry) == Append(log, entry)

\* MetricsStore::record_raw
record_raw(log, operation, set_type, duration_ns) ==
  record(log, MetricEntryNew(operation, set_type, duration_ns, TRUE))

\* MetricsStore::clear: self.entries.clear()
clear(log) == <<>>

\* The keys of the HashMap built by aggregated().
GroupKeys(log) == {<<log[i].operation, log[i].set_type>> : i \in 1..Len(log)}

\* map.entry(key).or_default().push(e.duration_ns), over the log in order.
RECURSIVE GroupDurations(_, _)
GroupDurations(log, key) ==
  IF log = <<>> THEN <<>>
  ELSE LET front == GroupDurations(SubSeq(log, 1, Len(log) - 1), key)
           e == log[Len(log)]
       IN  IF <<e.operation, e.set_type>> = key
           THEN Append(front, e.duration_ns)
           ELSE front

\* sorted.sort_unstable() / all_lats.sort_by(partial_cmp): ascending.
RECURSIVE SortAsc(_)
SortAsc(s) ==
  IF s = <<>> THEN <<>>
  ELSE LET front == SortAsc(SubSeq(s, 1, Len(s) - 1))
           x == s[Len(s)]
           k == Cardinality({i \in 1..Len(front) : front[i] <= x})
       IN  SubSeq(front, 1, k) \o <<x>> \o SubSeq(front, k + 1, Len(front))

\* durations.iter().sum()
RECURSIVE SumSeq(_)
SumSeq(s) == IF s = <<>> THEN 0 ELSE s[1] + SumSeq(Tail(s))

\* (count as f64 * 0.95) as usize, with pct = 95 or 99: the product of the
\* count and the double nearest 0.95 (0.99), rounded to a double and
\* truncated.  The double is within 5e-17 of the fraction, so for every
\* count the service can hold the truncated product is floor(count * pct / 100).
F64Index(count, pct) == (count * pct) \div 100

\* The percentile index of aggregated(), counted from the list front as in
\* ceil(count * pct / 100) - 1.
PercentileIndexCeil(count, pct) ==
  LET c == (count * pct + 99) \div 100 IN IF c = 0 THEN 0 ELSE c - 1

\* ((count as f64 * 0.95) as usize).min(count.saturating_sub(1))
PercentileIndex(count, pct) ==
  LET last == IF count = 0 THEN 0 ELSE count - 1
      i == F64Index(count, pct)
  IN  IF i < last THEN i ELSE last

\* The AggregatedMetric of one group with the percentiles read from the
\* durations as logged, without sort_unstable().
AggregatedMetricUnsorted(key, durations) ==
  LET count == Len(durations)
      sorted == SortAsc(durations)
  IN  [operation |-> key[1],
       set_type |-> key[2],
       sample_count |-> count,
       min_ns |-> sorted[1],
       max_ns |-> sorted[count],
       avg_ns |-> SumSeq(durations) \div count,
       p50_ns |-> durations[(count \div 2) + 1],
       p95_ns |-> durations[PercentileIndex(count, 95) + 1],
       p99_ns |-> durations[PercentileIndex(count, 99) + 1]]

\* The AggregatedMetric of one group.
AggregatedMetric(key, durations) ==
  LET count == Len(durations)
      sorted == SortAsc(durations)
  IN  [operation |-> key[1],
       set_type |-> key[2],
       sample_count |-> count,
       min_ns |-> sorted[1],
       max_ns |-> sorted[count],
       avg_ns |-> SumSeq(durations) \div count,
       p50_ns |-> sorted[(count \div 2) + 1],
       p95_ns |-> sorted[PercentileIndex(count, 95) + 1],
       p99_ns |-> sorted[PercentileIndex(count, 99) + 1]]

\* a.operation.cmp(&b.operation).then(a.set_type.cmp(&b.set_type))
KeyLeq(a, b) ==
  \/ LabelRank(Operations, a[1]) < LabelRank(Operations, b[1])
  \/ /\ a[1] = b[1]
     /\ LabelRank(SetTypes, a[2]) <= LabelRank(SetTypes, b[2])

\* out.sort_by(...) on the rows of the map, whose keys are distinct.
RECURSIVE SortedKeys(_)
SortedKeys(keys) ==
  IF keys = {} THEN <<>>
  ELSE LET k == CHOOSE a \in keys : \A b \in keys : KeyLeq(a, b)
       IN  <<k>> \o SortedKeys(keys \ {k})

\* The rows of aggregated() when the log is grouped by operation alone.
aggregated_by_operation(log) ==
  LET keys == SortedKeys({<<k[1], SetTypes[1]>> : k \in GroupKeys(log)})
      durs(k) == GroupDurations(log, <<k[1], SetTypes[1]>>) \o
                 GroupDurations(log, <<k[1], SetTypes[2]>>)
  IN  [i \in 1..Len(keys) |-> AggregatedMetric(keys[i], durs(keys[i]))]

\* MetricsStore::aggregated
aggregated(log) ==
  LET keys == SortedKeys(GroupKeys(log))
  IN  [i \in 1..Len(keys) |->
         AggregatedMetric(keys[i], GroupDurations(log, keys[i]))]

\* MetricsStore::to_csv: the header record, then one record per entry.
to_csv(log) ==
  <<<<"operation", "set_type", "duration_ns", "success">>>> \o
  [i \in 1..Len(log) |->
     <<log[i].operation, log[i].set_type, log[i].duration_ns, log[i].success>>]

\* MetricsStore::ascii_table: a fixed text for an empty aggregation, else
\* the header line, the rule and one line per aggregated row.
ascii_table(log) ==
  LET agg == aggregated(log) IN
  IF agg = <<>> THEN <<"No metrics collected yet.">>
  ELSE <<"header", "rule">> \o
       [i \in 1..Len(agg) |->
          <<agg[i].operation, agg[i].set_type, agg[i].sample_count,
            agg[i].avg_ns, agg[i].p50_ns, agg[i].p95_ns, agg[i].p99_ns>>]

\* ------------------------------------------------- the MetricsStore, call by call
\* What a MetricsStore call leaves alone.
MetricsFrame ==
  UNCHANGED <<mgrVars, store, next_id, metrics, pc, req, last_done, lockVars,
              stressVars, benchVars, all_lats, lat_stats, resp, devolutions,
              timings, trial_sets, probe_in, probes, pool,
                 product_counts, auxVars>>

MCall(op, arg, out) == [op |-> op, arg |-> arg, out |-> out]

Record ==
  /\ Len(entries) < MaxLog
  /\ \E e \in MetricEntry :
       /\ entries' = record(entries, e)
       /\ m_call' = MCall("record", <<e>>, <<>>)
  /\ MetricsFrame

RecordRaw ==
  /\ Len(entries) < MaxLog
  /\ \E o \in 1..Len(Operations), t \in 1..Len(SetTypes), d \in Durations :
       /\ entries' = record_raw(entries, Operations[o], SetTypes[t], d)
       /\ m_call' = MCall("record_raw",
                          <<MetricEntryNew(Operations[o], SetTypes[t], d, TRUE)>>,
                          <<>>)
  /\ MetricsFrame

Clear ==
  /\ entries' = clear(entries)
  /\ m_call' = MCall("clear", <<>>, <<>>)
  /\ MetricsFrame

\* aggregated(&self), to_csv(&self), ascii_table(&self): the log is borrowed
\* immutably.
Aggregated ==
  /\ m_call' = MCall("aggregated", <<>>, aggregated(entries))
  /\ UNCHANGED entries
  /\ MetricsFrame

ToCsv ==
  /\ m_call' = MCall("to_csv", <<>>, to_csv(entries))
  /\ UNCHANGED entries
  /\ MetricsFrame

AsciiTable ==
  /\ m_call' = MCall("ascii_table", <<>>, ascii_table(entries))
  /\ UNCHANGED entries
  /\ MetricsFrame

NextMetrics ==
  \/ Record
  \/ RecordRaw
  \/ Clear
  \/ Aggregated
  \/ ToCsv
  \/ AsciiTable

SpecMetrics == Init /\ [][NextMetrics]_vars

\* The entries of the log carrying the pair key, in log order.
Matching(key) ==
  SelectSeq(entries, LAMBDA e : e.operation = key[1] /\ e.set_type = key[2])

\* C22: aggregated() returns exactly one row per distinct (operation,
\* set_type) pair of the log; a row's sample_count is the number of entries
\* with its pair, the counts sum to the number of entries, and min, max and
\* mean (the floor of sum / count) are those of exactly these entries.
C22_OneRowPerGroup ==
  m_call.op = "aggregated" =>
    LET rows == m_call.out
        key(r) == <<r.operation, r.set_type>>
    IN  /\ {key(rows[i]) : i \in 1..Len(rows)} =
             {<<entries[j].operation, entries[j].set_type>> : j \in 1..Len(entries)}
        /\ \A i, j \in 1..Len(rows) : key(rows[i]) = key(rows[j]) => i = j
        /\ SumSeq([i \in 1..Len(rows) |-> rows[i].sample_count]) = Len(entries)
        /\ \A i \in 1..Len(rows) :
             LET mine == Matching(key(rows[i]))
                 ds == {mine[j].duration_ns : j \in 1..Len(mine)}
             IN  /\ rows[i].sample_count = Len(mine)
                 /\ rows[i].min_ns \in ds
                 /\ \A d \in ds : rows[i].min_ns <= d
                 /\ rows[i].max_ns \in ds
                 /\ \A d \in ds : d <= rows[i].max_ns
                 /\ rows[i].avg_ns =
                      SumSeq([j \in 1..Len(mine) |-> mine[j].duration_ns]) \div Len(mine)

\* An aggregation of three entries in two groups, one of them holding the
\* durations 1 and 4 (mean 2).
C22_Witness ==
  /\ m_call.op = "aggregated"
  /\ Len(entries) = 3
  /\ Len(m_call.out) = 2
  /\ \E i \in 1..2 :
       /\ m_call.out[i].sample_count = 2
       /\ m_call.out[i].min_ns = 1
       /\ m_call.out[i].max_ns = 4
       /\ m_call.out[i].avg_ns = 2

\* C23: record and record_raw append exactly one entry at the end of the log
\* and leave the earlier entries as they were, clear empties the log,
\* aggregated, to_csv and ascii_table leave it unchanged, and nothing else
\* changes it.
C23_LogAppendOnly ==
  [][/\ m_call'.op \in {"record", "record_raw"} =>
          /\ Len(entries') = Len(entries) + 1
          /\ SubSeq(entries', 1, Len(entries)) = entries
          /\ entries'[Len(entries')] = m_call'.arg[1]
     /\ m_call'.op = "clear" => entries' = <<>>
     /\ m_call'.op \in {"aggregated", "to_csv", "ascii_table"} => entries' = entries
     /\ entries' # entries => m_call'.op \in {"record", "record_raw", "clear"}
    ]_vars

\* A log of two different entries, read by to_csv.
C23_Witness ==
  /\ m_call.op = "to_csv"
  /\ Len(entries) = 2
  /\ entries[1] # entries[2]
  /\ Len(m_call.out) = 3

\* ------------------------------------------------- percentiles
\* all_lats.get(i).copied().unwrap_or(0.0)
GetOr(s, i, default) == IF i < Len(s) THEN s[i + 1] ELSE default

\* run_stress_test, "Compute latency stats": the list is sorted, min and max
\* are its ends, the mean is sum / n (kept as the pair of sum and n), and
\* p95 / p99 are read with get() at (n as f64 * 0.95) as usize.
latency_stats(lats) ==
  LET sorted == SortAsc(lats)
      n == Len(sorted)
  IN  [min_latency_ms |-> GetOr(sorted, 0, 0),
       max_latency_ms |-> IF n = 0 THEN 0 ELSE sorted[n],
       avg_latency_ms |-> IF n > 0 THEN <<SumSeq(sorted), n>> ELSE <<0, 1>>,
       p95_latency_ms |-> GetOr(sorted, F64Index(n, 95), 0),
       p99_latency_ms |-> GetOr(sorted, F64Index(n, 99), 0)]

\* Sample lists of up to MaxSamples durations, as they are recorded (not
\* sorted): the values 3, 2 and 1 in that order, with every split of the
\* length among them.
SampleLists ==
  LET R == 0..MaxSamples
      splits == {t \in R \X R \X R : t[2] + t[3] <= t[1]}
  IN  {[i \in 1..t[1] |->
          IF i <= t[1] - t[2] - t[3] THEN 3 ELSE IF i <= t[1] - t[2] THEN 2 ELSE 1] :
         t \in splits}

\* One metrics group holding the sample list, and the same list as the
\* stress harness's global latency list.
InitStats ==
  /\ InitBase
  /\ \E s \in SampleLists :
       /\ entries = [i \in 1..Len(s) |->
                       MetricEntryNew(Operations[1], SetTypes[1], s[i], TRUE)]
       /\ all_lats = s
  /\ m_call = NoMCall
  /\ lat_stats = <<>>
  /\ InitHandlerVars
  /\ InitTrialVars
  /\ pool = NoPool
  /\ product_counts = NoCounts
  /\ InitAux

LatencyStats ==
  /\ lat_stats' = <<latency_stats(all_lats)>>
  /\ UNCHANGED <<mgrVars, store, next_id, metrics, pc, req, last_done, lockVars,
                 stressVars, benchVars, entries, m_call, all_lats, resp,
                 devolutions, timings, trial_sets, probe_in, probes, pool,
                 product_counts, auxVars>>

NextStats ==
  \/ Aggregated
  \/ LatencyStats

SpecStats == InitStats /\ [][NextStats]_vars

\* v is the element at index i (from 0) of the list s sorted ascending.
IsSortedElem(s, i, v) ==
  /\ Cardinality({j \in 1..Len(s) : s[j] < v}) <= i
  /\ i < Cardinality({j \in 1..Len(s) : s[j] <= v})

\* C21: for a sample list of n >= 1 durations, p95 and p99 (of the metrics
\* group and of the stress report) are the elements of the ascending list at
\* index min(floor(n * 0.95), n - 1) and min(floor(n * 0.99), n - 1), the
\* metrics p50 is the element at floor(n / 2), every index lies within the
\* list, and n = 20 gives the p95 index 19.
C21_PercentileIndices ==
  LET n == Len(all_lats)
      Idx(pct) == IF (n * pct) \div 100 < n - 1 THEN (n * pct) \div 100 ELSE n - 1
  IN  n >= 1 =>
        /\ \A pct \in {95, 99} :
             /\ Idx(pct) \in 0..(n - 1)
             /\ PercentileIndex(n, pct) = Idx(pct)
             /\ F64Index(n, pct) = Idx(pct)
        /\ n \div 2 \in 0..(n - 1)
        /\ n = 20 => PercentileIndex(n, 95) = 19 /\ F64Index(n, 95) = 19
        /\ m_call.op = "aggregated" =>
             /\ Len(m_call.out) = 1
             /\ m_call.out[1].sample_count = n
             /\ IsSortedElem(all_lats, Idx(95), m_call.out[1].p95_ns)
             /\ IsSortedElem(all_lats, Idx(99), m_call.out[1].p99_ns)
             /\ IsSortedElem(all_lats, n \div 2, m_call.out[1].p50_ns)
        /\ lat_stats # <<>> =>
             /\ IsSortedElem(all_lats, Idx(95), lat_stats[1].p95_latency_ms)
             /\ IsSortedElem(all_lats, Idx(99), lat_stats[1].p99_latency_ms)

\* Twenty samples, one of them (recorded first) larger than the other
\* nineteen: both p95 values are that largest sample, the one at index 19.
C21_Witness ==
  /\ Len(all_lats) = 20
  /\ all_lats[1] = 3
  /\ \A i \in 2..20 : all_lats[i] < 3
  /\ m_call.op = "aggregated"
  /\ m_call.out[1].p95_ns = 3
  /\ m_call.out[1].p50_ns < 3
  /\ lat_stats # <<>>
  /\ lat_stats[1].p95_latency_ms = 3

\* ------------------------------------------------- handlers, one request at a time
\* payload.name.trim().is_empty()
TrimEmpty(n) == n \in {"", " "}

\* CreateProduct, UpdateProduct (Option fields) and CreateDevolution payloads.
CreatePayloads == [name : Names \cup {"", " "}, price_cents : {-1, 0}]

UpdatePayloads ==
  [name : {<<>>} \cup {<<n>> : n \in Names \cup {""}},
   price_cents : {<<>>, <<-1>>, <<0>>}]

DevolutionPayloads == [product_id : Ids, quantity : {-1, 0, 1}]

\* The payload is one the service has to refuse: an empty name or a negative
\* price, a quantity that is not positive.
InvalidCreate(p) == TrimEmpty(p.name) \/ p.price_cents < 0

InvalidUpdate(p) ==
  \/ p.name # <<>> /\ TrimEmpty(p.name[1])
  \/ p.price_cents # <<>> /\ p.price_cents[1] < 0

InvalidDevolution(p) == p.quantity <= 0

\* A response: the AppError it carries ("none" for Ok), whether the payload
\* was one to refuse, whether a backing-store call was made on the way, and
\* the product_count of a benchmark response.
Resp(kind, error, invalid, touched, product_count) ==
  [kind |-> kind, error |-> error, invalid |-> invalid, touched |-> touched,
   product_count |-> product_count]

\* The handler returns r and has changed nothing.
Answer(r) ==
  /\ resp' = r
  /\ UNCHANGED <<sets, store, next_id, metrics, devolutions>>

\* What the request handlers below never touch.
HandlerFrame ==
  UNCHANGED <<last_call, pc, req, last_done, lockVars, stressVars, benchVars,
              entries, m_call, all_lats, lat_stats, timings, trial_sets,
              probe_in, probes, pool,
                 product_counts, auxVars>>

\* db::fetch_all_products_unbounded: the rows, ORDER BY created_at ASC (the
\* order in which the store handed out the identity keys).
fetch_all_products_unbounded ==
  [i \in 1..Cardinality(store) |->
     CHOOSE q \in store : Cardinality({o \in store : o.id < q.id}) = i - 1]

\* POST /api/products
CreateRequest ==
  /\ metrics + 2 <= MaxEntries
  /\ \E p \in CreatePayloads, db_ok \in BOOLEAN :
       IF TrimEmpty(p.name) \/ p.price_cents < 0
       THEN Answer(Resp("create", "BadRequest", InvalidCreate(p), FALSE, -1))
       ELSE IF db_ok /\ next_id <= NumIds
       THEN LET product == [id |-> next_id, name |-> p.name,
                            price_cents |-> p.price_cents] IN
            /\ store' = store \cup {product}
            /\ next_id' = next_id + 1
            /\ sets' = insert_product(sets, product)
            /\ metrics' = metrics + 2
            /\ resp' = Resp("create", "none", InvalidCreate(p), TRUE, -1)
            /\ UNCHANGED devolutions
       ELSE Answer(Resp("create", "Store", InvalidCreate(p), TRUE, -1))
  /\ HandlerFrame

\* PUT /api/products/:id : the handler hands the payload to
\* db::update_product, which fetches the row, merges the optional fields
\* and writes it back.
UpdateRequest ==
  /\ metrics + 2 <= MaxEntries
  /\ \E id \in Ids, p \in UpdatePayloads, db_ok \in BOOLEAN :
       IF ~db_ok
       THEN Answer(Resp("update", "Store", InvalidUpdate(p), TRUE, -1))
       ELSE IF Rows(id) = {}
       THEN Answer(Resp("update", "NotFound", InvalidUpdate(p), TRUE, -1))
       ELSE LET existing == RowOf(id)
                product ==
                  [id |-> id,
                   name |-> IF p.name = <<>> THEN existing.name ELSE p.name[1],
                   price_cents |-> IF p.price_cents = <<>> THEN existing.price_cents
                                   ELSE p.price_cents[1]]
            IN  /\ store' = (store \ {existing}) \cup {product}
                /\ sets' = insert_product(remove_product(sets, id), product)
                /\ metrics' = metrics + 2
                /\ resp' = Resp("update", "none", InvalidUpdate(p), TRUE, -1)
                /\ UNCHANGED <<next_id, devolutions>>
  /\ HandlerFrame

\* DELETE /api/products/:id
DeleteRequest ==
  /\ metrics + 2 <= MaxEntries
  /\ \E id \in Ids, db_ok \in BOOLEAN :
       IF ~db_ok
       THEN Answer(Resp("delete", "Store", FALSE, TRUE, -1))
       ELSE IF Rows(id) = {}
       THEN Answer(Resp("delete", "NotFound", FALSE, TRUE, -1))
       ELSE /\ store' = store \ Rows(id)
            /\ sets' = remove_product(sets, id)
            /\ metrics' = metrics + 2
            /\ resp' = Resp("delete", "none", FALSE, TRUE, -1)
            /\ UNCHANGED <<next_id, devolutions>>
  /\ HandlerFrame

\* POST /api/devolutions : create_devolution calls db::insert_devolution,
\* which checks the quantity, then the product, then inserts the row.
DevolutionRequest ==
  /\ devolutions < MaxList
  /\ \E p \in DevolutionPayloads, db_ok \in BOOLEAN :
       IF p.quantity <= 0
       THEN Answer(Resp("devolution", "BadRequest", InvalidDevolution(p), FALSE, -1))
       ELSE IF ~db_ok
       THEN Answer(Resp("devolution", "Store", InvalidDevolution(p), TRUE, -1))
       ELSE IF Rows(p.product_id) = {}
       THEN Answer(Resp("devolution", "NotFound", InvalidDevolution(p), TRUE, -1))
       ELSE /\ devolutions' = devolutions + 1
            /\ resp' = Resp("devolution", "none", InvalidDevolution(p), TRUE, -1)
            /\ UNCHANGED <<sets, store, next_id, metrics>>
  /\ HandlerFrame

NextValid ==
  \/ CreateRequest
  \/ UpdateRequest
  \/ DevolutionRequest

SpecValid == Init /\ [][NextValid]_vars

benchmark_always(m, products, horder) == run_benchmark(m, products, horder)

\* The manager as the run_benchmark handler leaves it: untouched when the
\* store returned no products, else after SetManager::run_benchmark.
benchmark_on(m, products, horder) ==
  IF products = <<>> THEN m ELSE run_benchmark(m, products, horder)

\* POST /api/benchmark/run : five record_raw calls per container result.
BenchmarkRequest ==
  /\ metrics + (IF store = {} THEN 0 ELSE 5 * 3) <= MaxEntries
  /\ \E db_ok \in BOOLEAN :
       IF ~db_ok
       THEN Answer(Resp("benchmark", "Store", FALSE, TRUE, -1))
       ELSE LET products == fetch_all_products_unbounded IN
            \E horder \in HashOrders(products) :
              LET after == benchmark_on(sets, products, horder) IN
              /\ sets' = after
              /\ metrics' =
                   IF products = <<>> THEN metrics
                   ELSE metrics + 5 * Len(after.last_report[1].results)
              /\ resp' = Resp("benchmark", "none", FALSE, TRUE,
                              IF products = <<>> THEN 0
                              ELSE after.last_report[1].product_count)
              /\ UNCHANGED <<store, next_id, devolutions>>
  /\ HandlerFrame

NextBenchApi ==
  \/ CreateRequest
  \/ DeleteRequest
  \/ BenchmarkRequest

SpecBenchApi == Init /\ [][NextBenchApi]_vars

\* C25: a benchmark request that finds the backing store empty is answered
\* with success and product_count 0, and changes neither the manager's
\* containers, the cached last report, nor the metrics store.
C25_EmptyBenchmarkNoOp ==
  [][(resp'.kind = "benchmark" /\ store = {} /\ resp'.error # "Store") =>
       /\ resp'.error = "none"
       /\ resp'.product_count = 0
       /\ UNCHANGED <<sets, metrics, store>>
    ]_vars

\* A benchmark request answered with product_count 0 on an empty store while
\* the manager still caches the report of an earlier run.
C25_Witness ==
  /\ resp.kind = "benchmark"
  /\ resp.error = "none"
  /\ resp.product_count = 0
  /\ store = {}
  /\ sets.last_report # <<>>
  /\ sets.last_report[1].product_count > 0
  /\ metrics > 0

\* ------------------------------------------------- sets/mod.rs winners
\* The set_type labels of the three results, in the order run_benchmark
\* passes them to the fastest_* helpers.
SetTypeLabels == <<"HashSet", "IndexSet (LinkedHashSet)", "BTreeSet">>

\* [..].iter().min_by_key(|x| x.1) over the three results' duration_ns of
\* one metric: the first of the smallest.
MinByKey(h, l, b, metric) ==
  LET xs == <<h, l, b>>
      i == CHOOSE i \in 1..3 :
             /\ \A j \in 1..3 : xs[i][metric] <= xs[j][metric]
             /\ \A j \in 1..(i - 1) : xs[j][metric] > xs[i][metric]
  IN  xs[i].set_type

fastest_insert(h, l, b) == MinByKey(h, l, b, "insert_all")

\* The lookup winner picked on the miss durations.
fastest_lookup_by_miss(h, l, b) == MinByKey(h, l, b, "lookup_miss")

fastest_lookup(h, l, b) == MinByKey(h, l, b, "lookup_hit")

fastest_iterate(h, l, b) == MinByKey(h, l, b, "iterate_all")

\* The durations and winners of the BenchmarkReport run_benchmark builds
\* from the three results.
TimedReport(results) ==
  [results |-> results,
   winner_insert |-> fastest_insert(results[1], results[2], results[3]),
   winner_lookup |-> fastest_lookup(results[1], results[2], results[3]),
   winner_iterate |-> fastest_iterate(results[1], results[2], results[3])]

\* A run whose trials measured any three durations m for a metric: the
\* insert durations are m, the lookup-hit and iterate durations are m turned
\* by one and by two containers, so that each metric sees every combination
\* and the three metrics differ.
InitWin ==
  /\ InitBase
  /\ InitMetricsVars
  /\ InitHandlerVars
  /\ \E m \in [1..3 -> 0..MaxDur] :
       timings =
         <<TimedReport([c \in 1..3 |->
              [set_type |-> SetTypeLabels[c],
               insert_all |-> m[c],
               lookup_hit |-> m[(c % 3) + 1],
               lookup_miss |-> 0,
               iterate_all |-> m[((c + 1) % 3) + 1],
               remove_half |-> 0]])>>
  /\ trial_sets = <<>>
  /\ probe_in = <<>>
  /\ probes = <<>>
  /\ pool = NoPool
  /\ product_counts = NoCounts
  /\ InitAux

\* The same run with another miss or remove duration measured for one
\* container.
Remeasure ==
  /\ \E c \in 1..3, metric \in {"lookup_miss", "remove_half"}, v \in 0..1 :
       timings' = <<TimedReport([timings[1].results EXCEPT ![c][metric] = v])>>
  /\ UNCHANGED <<mgrVars, store, next_id, metrics, pc, req, last_done, lockVars,
                 stressVars, benchVars, entries, m_call, all_lats, lat_stats,
                 resp, devolutions, trial_sets, probe_in, probes, pool,
                 product_counts, auxVars>>

NextWin == Remeasure

SpecWin == InitWin /\ [][NextWin]_vars

\* The winner named for a metric is a container whose duration for it is not
\* above that of any of the three.
WinnerIsFastest(rep, winner, metric) ==
  \E c \in 1..3 :
    /\ rep.results[c].set_type = rep[winner]
    /\ \A j \in 1..3 : rep.results[c][metric] <= rep.results[j][metric]

\* C27: for insert, lookup-hit and iterate the reported winner is a container
\* whose duration for that metric is at most that of both others, and two
\* runs that differ only in miss or remove durations report the same winners.
C27_WinnersByLowestDuration ==
  [][LET a == timings[1]
         b == timings'[1]
         Used == {"insert_all", "lookup_hit", "iterate_all"}
     IN  /\ \A r \in {a, b} :
               /\ WinnerIsFastest(r, "winner_insert", "insert_all")
               /\ WinnerIsFastest(r, "winner_lookup", "lookup_hit")
               /\ WinnerIsFastest(r, "winner_iterate", "iterate_all")
         /\ (\A c \in 1..3, f \in Used : a.results[c][f] = b.results[c][f]) =>
               /\ a.winner_insert = b.winner_insert
               /\ a.winner_lookup = b.winner_lookup
               /\ a.winner_iterate = b.winner_iterate
    ]_vars

\* A report with three different winners, where the lookup winner has the
\* slowest miss and the insert winner the slowest removal.
C27_Witness ==
  /\ timings # <<>>
  /\ timings[1].winner_insert = "BTreeSet"
  /\ timings[1].winner_lookup = "IndexSet (LinkedHashSet)"
  /\ timings[1].winner_iterate = "HashSet"
  /\ timings[1].results[2].lookup_miss = 1
  /\ timings[1].results[1].lookup_miss = 0
  /\ timings[1].results[3].lookup_miss = 0
  /\ timings[1].results[3].remove_half = 1
  /\ timings[1].results[1].remove_half = 0

\* ---------------------------------------------------------------------------
\* sets/mod.rs: the lookup phases of a container trial.  A population is the
\* list of its identities 1..N; a fake product carries a fresh identity.
\* ---------------------------------------------------------------------------

\* lookup_targets without .take(LOOKUP_SAMPLES).
lookup_targets_untaken(products) ==
  IF products = <<>> THEN <<>>
  ELSE LET step == IF Len(products) \div LOOKUP_SAMPLES > 1
                   THEN Len(products) \div LOOKUP_SAMPLES ELSE 1
           stepped == (Len(products) + step - 1) \div step
       IN  [i \in 1..stepped |-> products[1 + (i - 1) * step]]

\* lookup_targets: every step-th element from the first, at most LOOKUP_SAMPLES.
lookup_targets(products) ==
  IF products = <<>> THEN <<>>
  ELSE LET step == IF Len(products) \div LOOKUP_SAMPLES > 1
                   THEN Len(products) \div LOOKUP_SAMPLES ELSE 1
           stepped == (Len(products) + step - 1) \div step
           taken == IF stepped < LOOKUP_SAMPLES THEN stepped ELSE LOOKUP_SAMPLES
       IN  [i \in 1..taken |-> products[1 + (i - 1) * step]]

\* miss_targets: LOOKUP_SAMPLES fake products; fresh is the first free identity.
miss_targets(fresh) == [i \in 1..LOOKUP_SAMPLES |-> fresh + i - 1]

\* The lookup phases of one trial: the targets probed, how many different
\* targets the container holds, and the divisor of each average (0 where the
\* code reports Duration::ZERO without dividing).
LookupPhases(set_type, products) ==
  LET hits == lookup_targets(products)
      misses == miss_targets(Len(products) + 1)
      present == SeqRange(products)
  IN  [set_type |-> set_type,
       hits |-> hits,
       hit_found |-> Cardinality(SeqRange(hits) \cap present),
       hit_divisor |-> Len(hits),
       misses |-> misses,
       miss_found |-> Cardinality(SeqRange(misses) \cap present),
       miss_divisor |-> LOOKUP_SAMPLES]

\* Population sizes: up to MaxPop, within MaxPop of the sample size, and
\* within MaxPop of twice the sample size (where step becomes 2).
PopulationSizes ==
  {n \in 0..(2 * LOOKUP_SAMPLES + MaxPop) :
     \/ n <= MaxPop
     \/ (n >= LOOKUP_SAMPLES - MaxPop /\ n <= LOOKUP_SAMPLES + MaxPop)
     \/ n >= 2 * LOOKUP_SAMPLES - MaxPop}

InitProbe ==
  /\ InitBase
  /\ InitMetricsVars
  /\ InitHandlerVars
  /\ timings = <<>>
  /\ trial_sets = <<>>
  /\ \E n \in PopulationSizes : probe_in = [i \in 1..n |-> i]
  /\ probes = <<>>
  /\ pool = NoPool
  /\ product_counts = NoCounts
  /\ InitAux

\* benchmark_hash_set / benchmark_index_set / benchmark_btree_set, lookup phases.
ProbeTrial ==
  /\ \E c \in 1..3 : probes' = <<LookupPhases(SetTypeLabels[c], probe_in)>>
  /\ UNCHANGED <<mgrVars, store, next_id, metrics, pc, req, last_done, lockVars,
                 stressVars, benchVars, entries, m_call, all_lats, lat_stats,
                 resp, devolutions, timings, trial_sets, probe_in, pool,
                 product_counts, auxVars>>

NextProbe == ProbeTrial

SpecProbe == InitProbe /\ [][NextProbe]_vars

C29_DeleteOnlyReads ==
  [][/\ \A w \in Workers :
          (w_op[w].kind = "delete" /\ w_pc'[w] # w_pc[w]) =>
            UNCHANGED <<store, sets>>
     /\ {q.id : q \in store} \subseteq {q.id : q \in store'}
     /\ report'.status = 200 =>
          product_counts'.after = product_counts'.before + report'.creates
    ]_vars

\* A finished run that counted a delete and a create: one row more than
\* before.
C29_Witness ==
  /\ report.status = 200
  /\ report.deletes >= 1
  /\ report.creates = 1
  /\ product_counts.before = 1
  /\ product_counts.after = 2

\* ---------------------------------------------------------------------------
\* main.rs / handlers/stress.rs: the connection pool under a stress run.
\* Every store call of a worker acquires one connection of the pool for the
\* call and returns it afterwards; the workers are counted by where they
\* are: between two store calls, inside one, waiting for a connection, done.
\* ---------------------------------------------------------------------------

\* params.concurrency.unwrap_or(20).clamp(1, 200)
ClampConcurrency(requested) ==
  LET c == IF requested = <<>> THEN DefaultConcurrency ELSE requested[1]
  IN  IF c < MinConcurrency THEN MinConcurrency
      ELSE IF c > MaxConcurrency THEN MaxConcurrency
      ELSE c

\* The concurrency values a request may carry (None, or Some of these).
RequestedConcurrency ==
  {<<>>} \cup {<<n>> : n \in {0, 1, MaxConnections, MaxConnections + 1, MaxRequest}}

PoolFrame ==
  UNCHANGED <<mgrVars, store, next_id, metrics, pc, req, last_done, lockVars,
              stressVars, benchVars, entries, m_call, all_lats, lat_stats,
              resp, devolutions, timings, trial_sets, probe_in, probes,
              product_counts, auxVars>>

\* run_stress_test spawns `concurrency` workers.
PoolSpawn ==
  /\ pool.concurrency = 0
  /\ \E requested \in RequestedConcurrency :
       pool' = [concurrency |-> ClampConcurrency(requested),
                between |-> ClampConcurrency(requested),
                in_query |-> 0, waiting |-> 0, done |-> 0]
  /\ PoolFrame

\* A worker starts a store call: it gets a connection if the pool has one
\* free, and waits otherwise.
PoolAcquire ==
  /\ pool.between > 0
  /\ pool' = IF pool.in_query < MaxConnections
             THEN [pool EXCEPT !.between = @ - 1, !.in_query = @ + 1]
             ELSE [pool EXCEPT !.between = @ - 1, !.waiting = @ + 1]
  /\ PoolFrame

\* A waiting worker gets a connection that was returned.
PoolGrant ==
  /\ pool.waiting > 0
  /\ pool.in_query < MaxConnections
  /\ pool' = [pool EXCEPT !.waiting = @ - 1, !.in_query = @ + 1]
  /\ PoolFrame

\* A store call ends and its connection goes back to the pool; the worker
\* goes on with its next operation or has finished its last one.
PoolRelease ==
  /\ pool.in_query > 0
  /\ \E last \in BOOLEAN :
       pool' = IF last
               THEN [pool EXCEPT !.in_query = @ - 1, !.done = @ + 1]
               ELSE [pool EXCEPT !.in_query = @ - 1, !.between = @ + 1]
  /\ PoolFrame

\* while join_set.join_next().await.is_some() {}: every worker has finished.
PoolJoin ==
  /\ pool.concurrency > 0
  /\ pool.done = pool.concurrency
  /\ pool' = NoPool
  /\ PoolFrame

NextPool == PoolSpawn \/ PoolAcquire \/ PoolGrant \/ PoolRelease \/ PoolJoin

SpecPool == Init /\ [][NextPool]_vars

\* C30: the pool's capacity is at least the concurrency of every stress run
\* that can be configured, so no stress worker ever waits for a connection
\* that the other workers hold.
C30_PoolCoversConcurrency ==
  /\ pool.concurrency <= MaxConnections
  /\ pool.waiting = 0

\* ---------------------------------------------------------------------------
\* models/product.rs: eq and hash on two Product values that may differ in
\* any attribute (the quantity stands for the attributes other than the name).
\* ---------------------------------------------------------------------------
Quantities == {0, 1}

FullProduct == [id : Ids, name : Names, quantity : Quantities]

NoEqOut == [eq |-> <<>>, hashes |-> <<>>]

InitEq ==
  /\ InitBase
  /\ InitMetricsVars
  /\ InitHandlerVars
  /\ InitTrialVars
  /\ pool = NoPool
  /\ product_counts = NoCounts
  /\ \E p, q \in FullProduct : eq_in = <<p, q>>
  /\ eq_out = NoEqOut
  /\ presence = <<>>
  /\ trial = NoTrial
  /\ mutexes = NoHolders

EqFrame ==
  UNCHANGED <<mgrVars, store, next_id, metrics, pc, req, last_done, lockVars,
              stressVars, benchVars, entries, m_call, all_lats, lat_stats,
              resp, devolutions, timings, trial_sets, probe_in, probes, pool,
              product_counts, eq_in, presence, trial, mutexes>>

\* p == q
CallEq ==
  /\ eq_out' = [eq_out EXCEPT !.eq = <<ProductEq(eq_in[1], eq_in[2])>>]
  /\ EqFrame

\* hash_of(&p), hash_of(&q)
CallHash ==
  /\ eq_out' = [eq_out EXCEPT
                  !.hashes = <<ProductHash(eq_in[1]), ProductHash(eq_in[2])>>]
  /\ EqFrame

NextEq == CallEq \/ CallHash

SpecEq == InitEq /\ [][NextEq]_vars

\* C33: two Product values are equal if and only if their identity keys are
\* equal, whatever their names and other attributes, and equal products have
\* equal hashes: products with the same identity key hash alike.
C33_EqAndHashByIdOnly ==
  LET p == eq_in[1]
      q == eq_in[2]
  IN  /\ eq_out.eq # <<>> => (eq_out.eq[1] <=> p.id = q.id)
      /\ eq_out.hashes # <<>> =>
           (p.id = q.id => eq_out.hashes[1] = eq_out.hashes[2])
      /\ (eq_out.eq # <<>> /\ eq_out.hashes # <<>> /\ eq_out.eq[1]) =>
           eq_out.hashes[1] = eq_out.hashes[2]

\* Two products with the same identity key and different names and
\* quantities were found equal, with equal hashes.
C33_Witness ==
  /\ eq_in[1].id = eq_in[2].id
  /\ eq_in[1].name # eq_in[2].name
  /\ eq_in[1].quantity # eq_in[2].quantity
  /\ eq_out.eq = <<TRUE>>
  /\ eq_out.hashes # <<>>
  /\ eq_out.hashes[1] = eq_out.hashes[2]

\* ---------------------------------------------------------------------------
\* Membership checks on the manager's containers, as get_product makes them.
\* ---------------------------------------------------------------------------

\* The three set_presence flags for product p against manager m.
set_presence(m, p) ==
  [product |-> p,
   hash_set |-> HashSetContains(m.hash_set, p),
   index_set |-> IndexSetContains(m.index_set, p),
   btree_set |-> BTreeSetContains(m.btree_set, p)]

\* sets.hash_set.contains(&product), sets.index_set.contains(&product),
\* sets.btree_set.contains(&product) under one read guard.
Contains ==
  /\ \E p \in Product : presence' = <<set_presence(sets, p)>>
  /\ UNCHANGED <<mgrVars, store, next_id, metrics, pc, req, last_done, lockVars,
                 stressVars, benchVars, entries, m_call, all_lats, lat_stats,
                 resp, devolutions, timings, trial_sets, probe_in, probes, pool,
                 product_counts, eq_in, eq_out, trial, mutexes>>

\* Manager calls with rows as the store returns them, and membership checks.
NextContains ==
  \/ InsertProduct
  \/ RemoveProduct
  \/ SyncRows
  \/ Reset
  \/ Contains

SpecContains == Init /\ [][NextContains]_vars

\* C35: for any entity value p and any reachable manager state the three
\* membership checks give the same answer.
C35_PresenceFlagsAgree ==
  presence # <<>> =>
    /\ presence[1].hash_set = presence[1].index_set
    /\ presence[1].index_set = presence[1].btree_set

\* C40: for every row returned by aggregated(): sample_count >= 1,
\* min_ns <= p50_ns <= p95_ns <= p99_ns <= max_ns, min_ns <= avg_ns <= max_ns
\* with avg_ns the floor of sum / sample_count; on an empty log aggregated()
\* returns no rows; every index it reads is within the sorted list.
C40_RowsWellOrdered ==
  m_call.op = "aggregated" =>
    LET rows == m_call.out
    IN  /\ entries = <<>> => rows = <<>>
        /\ \A i \in 1..Len(rows) :
             LET r == rows[i]
                 mine == Matching(<<r.operation, r.set_type>>)
             IN  /\ r.sample_count >= 1
                 /\ r.min_ns <= r.p50_ns
                 /\ r.p50_ns <= r.p95_ns
                 /\ r.p95_ns <= r.p99_ns
                 /\ r.p99_ns <= r.max_ns
                 /\ r.min_ns <= r.avg_ns
                 /\ r.avg_ns <= r.max_ns
                 /\ r.avg_ns =
                      SumSeq([j \in 1..Len(mine) |-> mine[j].duration_ns])
                        \div r.sample_count
                 /\ (r.sample_count \div 2) + 1 \in 1..r.sample_count
                 /\ PercentileIndex(r.sample_count, 95) + 1 \in 1..r.sample_count
                 /\ PercentileIndex(r.sample_count, 99) + 1 \in 1..r.sample_count

\* A row over twenty entries whose minimum, median, 95th percentile and
\* maximum are 1, 2, 3 and 3.
C40_Witness ==
  /\ m_call.op = "aggregated"
  /\ Len(entries) = 20
  /\ Len(m_call.out) = 1
  /\ m_call.out[1].min_ns = 1
  /\ m_call.out[1].p50_ns = 2
  /\ m_call.out[1].p95_ns = 3
  /\ m_call.out[1].avg_ns = 2

\* C36: the hit-lookup probes of a trial on N entities are taken at the
\* constant stride k = max(floor(N / S), 1) starting at the first entity,
\* every probed entity is in the populated container, and every block of k
\* consecutive input positions contains a probed entity: no tail of the
\* list is left unsampled.
C36_HitsEvenlySpread ==
  probes # <<>> =>
    LET n == Len(probe_in)
        k == IF n \div LOOKUP_SAMPLES > 1 THEN n \div LOOKUP_SAMPLES ELSE 1
        hits == probes[1].hits
        probed == SeqRange(hits)
    IN  /\ \A i \in 1..Len(hits) : hits[i] = probe_in[1 + (i - 1) * k]
        /\ probed \subseteq SeqRange(probe_in)
        /\ \A b \in 1..(n - k + 1) : \E j \in b..(b + k - 1) : probe_in[j] \in probed

\* ---------------------------------------------------------------------------
\* sets/mod.rs: run_benchmark phase by phase.  trial.c is the trial running
\* (1 hash, 2 insertion-ordered, 3 sorted), trial.at the phase it is about
\* to run, trial.set its local container (None before `let mut set` and
\* after the trial function returned), trial.log the phases run so far.
\* ---------------------------------------------------------------------------
PhaseOrder == <<"warmup", "insert", "hit", "miss", "iterate", "remove">>

\* A new container of trial c: HashSet::with_capacity, IndexSet::with_capacity,
\* BTreeSet::new.
NewContainer(c) == IF c = 1 THEN {} ELSE <<>>

\* The live container of the manager that has the type of trial c.
LiveContainer(m, c) ==
  IF c = 1 THEN m.hash_set ELSE IF c = 2 THEN m.index_set ELSE m.btree_set

\* for p in products.iter().take(n) { set.insert(p.clone()); } on container s.
RECURSIVE InsertAll(_, _, _, _)
InsertAll(c, s, products, n) ==
  IF n = 0 THEN s
  ELSE LET before == InsertAll(c, s, products, n - 1)
       IN  IF c = 1 THEN HashSetInsert(before, products[n])
           ELSE IF c = 2 THEN IndexSetInsert(before, products[n])
           ELSE BTreeSetInsert(before, products[n])

\* The elements of a container of trial c.
Elements(c, s) == IF c = 1 THEN s ELSE SeqRange(s)

\* run_benchmark was called on bench_in while the manager holds the rows
\* of an earlier sync.
InitPhases ==
  /\ \E live \in DbLists : sets = sync_from_db(NewManager, live)
  /\ last_call = NoCall
  /\ InitApi
  /\ bench_in \in DbLists
  /\ bench_out = <<>>
  /\ InitMetricsVars
  /\ InitHandlerVars
  /\ InitTrialVars
  /\ pool = NoPool
  /\ product_counts = NoCounts
  /\ eq_in = <<>>
  /\ eq_out = <<>>
  /\ presence = <<>>
  /\ trial = [c |-> 1, at |-> "warmup", set |-> <<>>, log |-> <<>>]
  /\ mutexes = NoHolders

PhaseFrame ==
  UNCHANGED <<last_call, store, next_id, metrics, pc, req, last_done, lockVars,
              stressVars, bench_in, entries, m_call, all_lats, lat_stats,
              resp, devolutions, timings, trial_sets, probe_in, probes, pool,
              product_counts, eq_in, eq_out, presence, mutexes>>

\* Phase ph of the running trial has run and phase `next` comes next.
Logged(ph, next) ==
  [trial EXCEPT !.log = Append(@, <<trial.c, ph>>), !.at = next]

\* Warmup: a container w is filled with the first 1 000 products and dropped
\* at the end of its block.
TrialWarmup ==
  /\ trial.at = "warmup"
  /\ trial' = Logged("warmup", "new")
  /\ UNCHANGED <<sets, bench_out>>
  /\ PhaseFrame

\* The trial's container starts as the manager's live container.
TrialNewFromLive ==
  /\ trial.at = "new"
  /\ trial' = [trial EXCEPT !.set = <<LiveContainer(sets, trial.c)>>,
                            !.at = "insert"]
  /\ UNCHANGED <<sets, bench_out>>
  /\ PhaseFrame

\* let mut set = ...::with_capacity(products.len()) / BTreeSet::new()
TrialNew ==
  /\ trial.at = "new"
  /\ trial' = [trial EXCEPT !.set = <<NewContainer(trial.c)>>, !.at = "insert"]
  /\ UNCHANGED <<sets, bench_out>>
  /\ PhaseFrame

\* Insert all: for p in products { set.insert(p.clone()); }
TrialInsert ==
  /\ trial.at = "insert"
  /\ trial' = [Logged("insert", "hit") EXCEPT
                 !.set = <<InsertAll(trial.c, trial.set[1], bench_in,
                                     Len(bench_in))>>]
  /\ UNCHANGED <<sets, bench_out>>
  /\ PhaseFrame

\* Lookup hit, lookup miss, iterate all: the container is only read.
TrialRead ==
  /\ \E i \in 3..5 :
       /\ trial.at = PhaseOrder[i]
       /\ trial' = Logged(PhaseOrder[i], PhaseOrder[i + 1])
  /\ UNCHANGED <<sets, bench_out>>
  /\ PhaseFrame

\* Remove half, in the order the container iterates.
TrialRemove ==
  /\ trial.at = "remove"
  /\ \E horder \in HashOrders(bench_in) :
       LET left == RemoveHalf(bench_in, horder)
       IN  trial' = [Logged("remove", "return") EXCEPT
                       !.set = <<IF trial.c = 1 THEN left.hash_set
                                 ELSE IF trial.c = 2 THEN left.index_set
                                 ELSE left.btree_set>>]
  /\ UNCHANGED <<sets, bench_out>>
  /\ PhaseFrame

\* The trial function returns its SetBenchmarkResult: its container is
\* dropped and the next trial, or the re-sync, follows.
TrialReturn ==
  /\ trial.at = "return"
  /\ trial' = [trial EXCEPT !.set = <<>>,
                            !.c = @ + 1,
                            !.at = IF trial.c = 3 THEN "sync" ELSE "warmup"]
  /\ UNCHANGED <<sets, bench_out>>
  /\ PhaseFrame

\* self.sync_from_db(&products), the winners and the report.
TrialSync ==
  /\ trial.at = "sync"
  /\ \E horder \in HashOrders(bench_in) :
       /\ sets' = run_benchmark(sets, bench_in, horder)
       /\ bench_out' = <<BenchmarkReport(bench_in, horder)>>
  /\ trial' = [trial EXCEPT !.at = "done"]
  /\ PhaseFrame

NextPhases ==
  \/ TrialWarmup
  \/ TrialNew
  \/ TrialInsert
  \/ TrialRead
  \/ TrialRemove
  \/ TrialReturn
  \/ TrialSync

SpecPhases == InitPhases /\ [][NextPhases]_vars

\* The phases of the three trials in their fixed order.
FullOrder == [i \in 1..18 |-> <<((i - 1) \div 6) + 1, PhaseOrder[((i - 1) % 6) + 1]>>]

\* C37: each container trial runs on a fresh, initially empty container
\* populated only from the input list, in the phase order warm-up, insert,
\* hit lookups, miss lookups, iteration, removal of half; the trials run one
\* after another in the order hash, insertion-ordered, sorted, and share no
\* container with each other or with the manager's live containers.
C37_TrialsIsolatedInOrder ==
  [][/\ trial'.log = SubSeq(FullOrder, 1, Len(trial'.log))
     /\ Len(trial'.log) <= Len(trial.log) + 1
     /\ trial'.at \in {"warmup", "new"} => trial'.set = <<>>
     /\ trial'.at = "insert" => trial'.set = <<NewContainer(trial'.c)>>
     /\ trial'.at \in {"hit", "miss", "iterate", "remove"} =>
          Elements(trial'.c, trial'.set[1]) = SeqRange(bench_in)
     /\ trial'.at = "return" =>
          Cardinality(Elements(trial'.c, trial'.set[1])) =
            Len(bench_in) - (Len(bench_in) \div 2)
     /\ trial.at # "sync" => sets' = sets
     /\ trial'.at = "done" => Len(trial'.log) = 18
    ]_vars

\* The sorted trial is about to insert into its empty container while the
\* live containers hold other products than the input list.
C37_Witness ==
  /\ trial.c = 3
  /\ trial.at = "insert"
  /\ trial.set = << <<>> >>
  /\ Len(trial.log) = 13
  /\ Len(bench_in) = 2
  /\ sets.hash_set # {}
  /\ sets.hash_set # SeqRange(bench_in)

\* ------------------------------------------------------------------ C38
\* The await points of a create / update / delete request up to and
\* including its backing-store call.
BeforeStoreSuccess == {"idle", "create_db", "update_fetch", "update_db", "delete_db"}

\* A step that ends the request of task 1 with an error.
RequestFails ==
  /\ pc'[1] = "idle"
  /\ last_done' # last_done \/ pc[1] # "idle"
  /\ last_done'.ok = FALSE

\* C38: a create, update or delete request whose backing-store call fails
\* (not found or store error) returns that error having left the Manager's
\* containers and the Metrics Store as they were: a request ends in an error
\* only at an await point up to its store call, and no step up to the store
\* call's success changes the containers or the metrics.
C38_FailedStoreCallNoEffect ==
  [][/\ RequestFails => pc[1] \in BeforeStoreSuccess
     /\ pc[1] \in BeforeStoreSuccess => UNCHANGED <<sets, metrics>>]_vars

\* A delete or update has failed while the store, the containers and the
\* metrics all hold entries.
C38_Witness ==
  /\ last_done.kind \in {"update", "delete"}
  /\ last_done.ok = FALSE
  /\ pc[1] = "idle"
  /\ store # {}
  /\ HashKeys(sets) # {}
  /\ metrics > 0

\* ------------------------------------------------------------------ C34
\* ------------------------------------------------- handlers/benchmark.rs
\* run_benchmark (the handler) up to its first await.
StartBenchmark(t) ==
  /\ pc[t] = "idle"
  /\ metrics <= MaxMetrics
  /\ Goto(t, "bench_fetch", [NoReq EXCEPT !.kind = "benchmark"])
  /\ UNCHANGED <<mgrVars, lockVars, stressVars, benchVars, moreVars, store, next_id, metrics>>

\* db::fetch_all_products_unbounded(&state.db).await? and the early return
\* for an empty list.
BenchFetch(t) ==
  /\ pc[t] = "bench_fetch"
  /\ \E ok \in BOOLEAN :
       IF ~ok
       THEN Finish(t, "benchmark", FALSE, FALSE)
       ELSE IF fetch_all_products_unbounded = <<>>
       THEN Finish(t, "benchmark", TRUE, FALSE)
       ELSE Goto(t, "bench_sets",
                 [req[t] EXCEPT !.list = fetch_all_products_unbounded])
  /\ UNCHANGED <<mgrVars, lockVars, stressVars, benchVars, moreVars, store, next_id, metrics>>

\* state.sets.write().await.run_benchmark(products)
BenchSets(t) ==
  /\ pc[t] = "bench_sets"
  /\ \E horder \in HashOrders(req[t].list) :
       sets' = run_benchmark(sets, req[t].list, horder)
  /\ Goto(t, "bench_metrics", req[t])
  /\ UNCHANGED <<last_call, lockVars, stressVars, benchVars, moreVars, store, next_id, metrics>>

\* The five record_raw calls per container result, then the response.
BenchMetrics(t) ==
  /\ pc[t] = "bench_metrics"
  /\ metrics' = metrics + 5 * Len(sets.last_report[1].results)
  /\ Finish(t, "benchmark", TRUE, FALSE)
  /\ UNCHANGED <<mgrVars, lockVars, stressVars, benchVars, moreVars, store, next_id>>

\* NumTasks create / update / delete / benchmark requests in flight at
\* once, interleaved at their await points.
NextRace ==
  \E t \in Tasks :
    \/ StartCreate(t)
    \/ CreateDb(t)
    \/ CreateSets(t)
    \/ CreateMetrics(t)
    \/ StartUpdate(t)
    \/ UpdateFetch(t)
    \/ UpdateDb(t)
    \/ UpdateSetsStep(t)
    \/ UpdateMetrics(t)
    \/ StartDelete(t)
    \/ DeleteDb(t)
    \/ DeleteSets(t)
    \/ DeleteMetrics(t)
    \/ StartBenchmark(t)
    \/ BenchFetch(t)
    \/ BenchSets(t)
    \/ BenchMetrics(t)

SpecRace == Init /\ [][NextRace]_vars

StoreKeys == {q.id : q \in store}

\* C34: whatever the interleaving of concurrent create, update, delete and
\* benchmark requests that start from an empty store and an empty manager,
\* once every request has completed each container holds exactly the
\* identity keys of the backing store.
C34_QuiescentKeysMatchStore ==
  AllIdle =>
    /\ HashKeys(sets) = StoreKeys
    /\ IndexKeys(sets) = StoreKeys
    /\ BTreeKeys(sets) = StoreKeys

\* ------------------------------------------------------------------ C31, C39
\* ------------------------------------------------- guards across awaits
\* A stress run from the moment its workers are spawned, next to one client
\* issuing get_report / sets_status requests, with every lock guard that lives
\* across an await point made explicit.  A guard that is a temporary of one
\* statement (sets.read().await.hash_set.contains(..), rl.lock().await.push(..))
\* is taken and dropped within the step; the update branch's `s` lives to the
\* end of its block, and r_lats .. d_lats live to the end of run_stress_test.
\* lock and mutexes[l] name the holder: a request task, WorkerPid(w) for a
\* worker, or MainPid for the run_stress_test handler itself.
WorkerPid(w) == NumTasks + w

MainPid == NumTasks + MaxConc + 1

\* The service holds one product, the run has passed its count and its id
\* snapshot, and its workers have just been spawned.
InitGuards ==
  /\ sets = sync_from_db(NewManager, <<[id |-> 1, name |-> "Alpha"]>>)
  /\ last_call = NoCall
  /\ store = {[id |-> 1, name |-> "Alpha"]}
  /\ next_id = 2
  /\ metrics = 0
  /\ pc = [t \in Tasks |-> "idle"]
  /\ req = [t \in Tasks |-> NoReq]
  /\ last_done = NoDone
  /\ lock = [writer |-> 0, readers |-> {}]
  /\ committed = NewManager
  /\ s_pc = "join"
  /\ \E c \in 1..MaxConc, k \in 1..MaxOps :
       /\ params = [concurrency |-> c, ops_per_user |-> k,
                    seed_count |-> <<>>, list |-> <<>>]
       /\ w_pc = [w \in Workers |-> IF w <= c THEN "roll" ELSE "off"]
  /\ existing_ids = {1}
  /\ counters = ZeroCounters
  /\ lat_len = ZeroLats
  /\ w_op = [w \in Workers |-> NoOp]
  /\ report = NoReport
  /\ bench_in = <<>>
  /\ bench_out = <<>>
  /\ InitMetricsVars
  /\ InitHandlerVars
  /\ InitTrialVars
  /\ pool = NoPool
  /\ product_counts = [before |-> 1, after |-> 0]
  /\ InitAux

\* READ: the read guard is a temporary of the statement.
GReadSets(w) == CanRead(lock) /\ WReadSets(w)

\* CREATE: the write guard is a temporary of the statement.
GCreateSets(w) == CanWrite(lock) /\ WCreateSets(w)

\* UPDATE: let mut s = sets.write().await; s.remove_product(id);
\* s.insert_product(&prod); updates += 1 -- and s stays alive.
GUpdateSets(w) ==
  /\ w_pc[w] = "sets"
  /\ w_op[w].kind = "update"
  /\ CanWrite(lock)
  /\ lock' = [lock EXCEPT !.writer = WorkerPid(w)]
  /\ sets' = UpdateSets(sets, w_op[w].id, w_op[w].prod)
  /\ counters' = Bump("updates")
  /\ w_pc' = [w_pc EXCEPT ![w] = "kind_lat"]
  /\ UNCHANGED <<w_op, s_pc, params, existing_ids, report, store, next_id, lat_len>>
  /\ UNCHANGED <<last_call, metrics, pc, req, last_done, committed, benchVars, moreVars>>

\* rl / cl / dl .lock().await.push(latency): no other guard is alive.
GKindLat(w) ==
  /\ w_pc[w] = "kind_lat"
  /\ w_op[w].kind # "update"
  /\ mutexes[w_op[w].kind] = 0
  /\ WKindLat(w)

\* What the end of the update block has in common.
UpdateLatFrame ==
  /\ UNCHANGED <<w_op, s_pc, params, existing_ids, report, sets, store, next_id, counters>>
  /\ UNCHANGED <<last_call, metrics, pc, req, last_done, committed, benchVars, moreVars>>

\* An update block whose write guard outlives the block.
GUpdateLatKeepGuard(w) ==
  /\ w_pc[w] = "kind_lat"
  /\ w_op[w].kind = "update"
  /\ mutexes.update = 0
  /\ lat_len' = [lat_len EXCEPT !.update = @ + 1]
  /\ w_pc' = [w_pc EXCEPT ![w] = "lat"]
  /\ UNCHANGED lock
  /\ UpdateLatFrame

\* An update block that asks for the manager's lock again while `s` is alive.
GUpdateLatRelock(w) ==
  /\ w_pc[w] = "kind_lat"
  /\ w_op[w].kind = "update"
  /\ CanWrite(lock)
  /\ mutexes.update = 0
  /\ lat_len' = [lat_len EXCEPT !.update = @ + 1]
  /\ w_pc' = [w_pc EXCEPT ![w] = "lat"]
  /\ lock' = [lock EXCEPT !.writer = 0]
  /\ UpdateLatFrame

\* UPDATE: ul.lock().await.push(latency) while `s` is alive; the block ends
\* and `s` is dropped.
GUpdateLat(w) ==
  /\ w_pc[w] = "kind_lat"
  /\ w_op[w].kind = "update"
  /\ lock.writer = WorkerPid(w)
  /\ mutexes.update = 0
  /\ lat_len' = [lat_len EXCEPT !.update = @ + 1]
  /\ w_pc' = [w_pc EXCEPT ![w] = "lat"]
  /\ lock' = [lock EXCEPT !.writer = 0]
  /\ UpdateLatFrame

\* lats.lock().await.push(op_ms)
GLat(w) == mutexes.all = 0 /\ WLat(w)

\* What the locking steps of the report leave alone.
ReportFrame ==
  /\ UNCHANGED <<sets, store, next_id, params, existing_ids, counters, lat_len, w_pc, w_op>>
  /\ UNCHANGED <<last_call, metrics, pc, req, last_done, lockVars, benchVars,
                 entries, m_call, all_lats, lat_stats, resp, devolutions, timings,
                 trial_sets, probe_in, probes, pool, product_counts,
                 eq_in, eq_out, presence, trial>>

\* let mut all_lats = latencies_ms.lock().await.clone()
GReportClone ==
  /\ s_pc = "report"
  /\ mutexes.all = 0
  /\ s_pc' = "lock_read"
  /\ UNCHANGED <<report, mutexes>>
  /\ ReportFrame

\* Where the report waits for the lock of list l.
LatLockPc(l) ==
  CASE l = "read" -> "lock_read"
    [] l = "create" -> "lock_create"
    [] l = "update" -> "lock_update"
    [] l = "delete" -> "lock_delete"

\* Where the report goes once it holds the lock of list l.
NextLatLock(l) ==
  CASE l = "read" -> "lock_create"
    [] l = "create" -> "lock_update"
    [] l = "update" -> "lock_delete"
    [] l = "delete" -> "respond"

\* let r_lats = read_lats.lock().await; .. let d_lats = delete_lats.lock().await
GReportLock(l) ==
  /\ s_pc = LatLockPc(l)
  /\ mutexes[l] = 0
  /\ mutexes' = [mutexes EXCEPT ![l] = MainPid]
  /\ s_pc' = NextLatLock(l)
  /\ UNCHANGED report
  /\ ReportFrame

\* The StressReport is built and returned; the four guards are dropped.
GRespond ==
  /\ s_pc = "respond"
  /\ report' = [status |-> 200,
                total_ops |-> params.concurrency * params.ops_per_user,
                reads |-> counters.reads, creates |-> counters.creates,
                updates |-> counters.updates, deletes |-> counters.deletes,
                errors |-> counters.errors, latencies |-> lat_len.all]
  /\ mutexes' = NoHolders
  /\ s_pc' = "idle"
  /\ ReportFrame

WorkerStep(w) ==
  \/ WRoll(w)
  \/ WReadDb(w)
  \/ GReadSets(w)
  \/ WCreateDb(w)
  \/ GCreateSets(w)
  \/ WUpdateDb(w)
  \/ GUpdateSets(w)
  \/ WDeleteDb(w)
  \/ GKindLat(w)
  \/ GUpdateLat(w)
  \/ GLat(w)

MainStep ==
  \/ StressJoin
  \/ GReportClone
  \/ \E l \in LatLists \ {"all"} : GReportLock(l)
  \/ GRespond

\* Another client's get_report / sets_status requests: the read guard lives
\* from sets.read().await to the end of the handler.
RequestStep ==
  \/ AcquireRead(1)
  \/ ReleaseRead(1)

NextGuards ==
  \/ \E w \in Workers : WorkerStep(w)
  \/ MainStep
  \/ RequestStep

SpecGuards == InitGuards /\ [][NextGuards]_vars

\* Worker w, or the run_stress_test handler, holds a guard of the manager's
\* lock, of a latency list or of the metrics store.
HoldsGuard(p) ==
  \/ lock.writer = p
  \/ p \in lock.readers
  \/ \E l \in DOMAIN mutexes : mutexes[l] = p

\* Worker w, or the run_stress_test handler, is suspended in a call of the
\* backing store.
AtStoreCall(p) ==
  IF p = MainPid THEN s_pc \in {"seed_db", "count", "snapshot", "join"}
  ELSE \E w \in Workers : p = WorkerPid(w) /\ w_pc[w] = "db"

SpecGuardsFair ==
  /\ SpecGuards
  /\ \A w \in Workers : SF_vars(WorkerStep(w))
  /\ WF_vars(MainStep)
  /\ WF_vars(ReleaseRead(1))

\* Every spawned worker has completed its ops_per_user operations.
AllOpsDone ==
  \A w \in Workers :
    w <= params.concurrency =>
      w_pc[w] = "done" /\ w_op[w].n = params.ops_per_user

\* run_stress_test has returned: the report of all concurrency *
\* ops_per_user operations, or the error of its last count_products call.
RunReturned ==
  /\ s_pc = "idle"
  /\ \/ report.status = 200 /\ report.latencies = report.total_ops
     \/ report.status = 500

\* C39: under fair scheduling and with store calls that return, a stress
\* run whose workers are spawned ends: every worker completes its
\* ops_per_user operations, none waits forever for the manager's lock or a
\* latency list, and the handler returns its report.
C39_StressRunTerminates ==
  /\ (s_pc = "join") ~> AllOpsDone
  /\ (s_pc = "join") ~> RunReturned

\* The report of a run in which an update held the manager's write guard
\* while taking the update latency list.
C39_Witness ==
  /\ s_pc = "idle"
  /\ report.status = 200
  /\ report.updates > 0
  /\ report.total_ops = MaxConc * MaxOps

====
